---- MODULE Spec2Model ----
(***************************************************************************)
(* TrustQuery: trigger scanning (CommandScanner), overlay rendering        *)
(* (OverlayRenderer), validation aggregation (ValidationStateManager) and  *)
(* the dropdown commit path (InteractionHandler / DropdownManager).        *)
(*                                                                         *)
(* A JavaScript string is a sequence of one-character strings; columns are *)
(* 0-based as in the source, sequence indices 1-based.                     *)
(***************************************************************************)
EXTENDS Integers, Sequences, FiniteSets, TLC

\* ------------------------------------------------------------ characters

LowerLetters == <<"a","b","c","d","e","f","g","h","i","j","k","l","m",
                  "n","o","p","q","r","s","t","u","v","w","x","y","z">>

UpperLetters == <<"A","B","C","D","E","F","G","H","I","J","K","L","M",
                  "N","O","P","Q","R","S","T","U","V","W","X","Y","Z">>

Digits == {"0","1","2","3","4","5","6","7","8","9"}

LowerSet == {LowerLetters[i] : i \in 1..Len(LowerLetters)}

UpperSet == {UpperLetters[i] : i \in 1..Len(UpperLetters)}

\* U+0130, LATIN CAPITAL LETTER I WITH DOT ABOVE: the one UTF-16 code unit
\* whose String.prototype.toLowerCase() is two code units (i, U+0307).
DottedI == "I."

CombiningDot == "^."

NL == "\n"

\* text[i] past the end of the string
Undefined == "undefined"

\* text[i], 0-based
charAt(text, i) == IF 0 <= i /\ i < Len(text) THEN text[i + 1] ELSE Undefined

\* /[a-zA-Z0-9_]/.test(char); test() converts undefined to the string "undefined"
isWordChar(char) == char \in LowerSet \cup UpperSet \cup Digits \cup {"_", Undefined}

\* String.prototype.toLowerCase() of one code unit
LowerOfChar(c) ==
    IF c \in UpperSet
    THEN <<LowerLetters[CHOOSE i \in 1..Len(UpperLetters) : UpperLetters[i] = c]>>
    ELSE IF c = DottedI THEN <<"i", CombiningDot>>
    ELSE <<c>>

RECURSIVE toLowerCase(_)
toLowerCase(s) ==
    IF s = <<>> THEN <<>> ELSE LowerOfChar(Head(s)) \o toLowerCase(Tail(s))

\* ------------------------------------------------------------ strings

Min(a, b) == IF a < b THEN a ELSE b

Max(a, b) == IF a > b THEN a ELSE b

\* String.prototype.substring(start, end), 0-based, end exclusive, clamped
substring(s, start, end) ==
    LET a == Max(0, Min(start, Len(s)))
        b == Max(0, Min(end, Len(s)))
        lo == Min(a, b)
        hi == Max(a, b)
    IN  SubSeq(s, lo + 1, hi)

\* s.indexOf(pattern, from): the least index >= from where pattern occurs, or
\* -1; from is clamped to the length of s, so the empty pattern is always found
indexOf(s, pattern, from) ==
    LET start == Max(0, Min(from, Len(s)))
        cands == {i \in start..(Len(s) - Len(pattern)) :
                     SubSeq(s, i + 1, i + Len(pattern)) = pattern}
    IN  IF cands = {} THEN -1
        ELSE CHOOSE i \in cands : \A j \in cands : i <= j

\* text.split('\n')
RECURSIVE split(_)
split(text) ==
    LET nls == {i \in 1..Len(text) : text[i] = NL}
    IN  IF nls = {} THEN <<text>>
        ELSE LET i == CHOOSE k \in nls : \A j \in nls : k <= j
             IN  <<SubSeq(text, 1, i - 1)>> \o split(SubSeq(text, i + 1, Len(text)))

\* lines.join('\n')
RECURSIVE join(_)
join(lines) ==
    IF Len(lines) = 0 THEN <<>>
    ELSE IF Len(lines) = 1 THEN lines[1]
    ELSE lines[1] \o <<NL>> \o join(Tail(lines))

RECURSIVE Concat(_)
Concat(ss) == IF ss = <<>> THEN <<>> ELSE Head(ss) \o Concat(Tail(ss))

\* ------------------------------------------------------------ regular expressions

\* A compiled pattern (new RegExp(source, 'g')) is a sequence of atoms, each a
\* character class with a greedy quantifier {min,max} or {min,}.
Atom(cls, min, max) == [cls |-> cls, min |-> min, max |-> max, unbounded |-> FALSE]

AtomUnbounded(cls, min) == [cls |-> cls, min |-> min, max |-> min, unbounded |-> TRUE]

Lit(c) == Atom({c}, 1, 1)

\* number of consecutive characters of cls in line from 0-based position pos
RECURSIVE RunLength(_, _, _)
RunLength(line, pos, cls) ==
    IF pos < Len(line) /\ line[pos + 1] \in cls
    THEN 1 + RunLength(line, pos + 1, cls)
    ELSE 0

\* Backtracking match of atoms i.. at position pos: the end position of the
\* match the engine reports (greedy, first success), or -1.
RECURSIVE matchAtoms(_, _, _, _)
RECURSIVE tryCount(_, _, _, _, _)
matchAtoms(line, pos, ast, i) ==
    IF i > Len(ast) THEN pos
    ELSE LET a == ast[i]
             run == RunLength(line, pos, a.cls)
             most == IF a.unbounded THEN run ELSE Min(run, a.max)
         IN  tryCount(line, pos, ast, i, most)

tryCount(line, pos, ast, i, k) ==
    IF k < ast[i].min THEN -1
    ELSE LET r == matchAtoms(line, pos + k, ast, i + 1)
         IN  IF r # -1 THEN r ELSE tryCount(line, pos, ast, i, k - 1)

\* one regex.exec(line) with the global flag, from lastIndex:
\* <<index, end>> of the leftmost match, or <<-1, -1>> (null)
RECURSIVE exec(_, _, _)
exec(line, ast, lastIndex) ==
    IF lastIndex > Len(line) THEN <<-1, -1>>
    ELSE LET end == matchAtoms(line, lastIndex, ast, 1)
         IN  IF end # -1 THEN <<lastIndex, end>>
             ELSE exec(line, ast, lastIndex + 1)

\* sources of the patterns the configurations use
SrcEmail == <<"[","a","-","z","]","+","@","[","a","-","z","]","+","\\",".",
              "[","a","-","z","]","{","2",",","}">>

SrcEPlus == <<"e","+">>

SrcE == <<"e">>

SrcClassT == <<"[","t","]">>

SrcTe == <<"t","e">>

\* e*: matches the empty string
SrcEStar == <<"e","*">>

\* [te: an unterminated character class
SrcOpenClass == <<"[","t","e">>

\* whether new RegExp(source, 'g') throws a SyntaxError
throwsSyntaxError(source) == source \in {SrcOpenClass}

\* new RegExp(source, 'g'), for a source that compiles
RegExpOf(source) ==
    CASE source = SrcEmail ->
             <<AtomUnbounded(LowerSet, 1), Lit("@"), AtomUnbounded(LowerSet, 1),
               Lit("."), AtomUnbounded(LowerSet, 2)>>
      [] source = SrcEPlus -> <<AtomUnbounded({"e"}, 1)>>
      [] source = SrcE -> <<Lit("e")>>
      [] source = SrcClassT -> <<Lit("t")>>
      [] source = SrcTe -> <<Lit("t"), Lit("e")>>
      [] source = SrcEStar -> <<AtomUnbounded({"e"}, 0)>>

\* ------------------------------------------------------------ CommandScanner

\* keys of the trigger document that start with '$'
MetaKeys == {"$schema"}

\* the commands one trigger entry contributes: its regex patterns, then its phrases
RECURSIVE commandsOfPatterns(_, _, _, _, _)
commandsOfPatterns(patterns, matchType, messageState, trigger, index) ==
    IF patterns = <<>> THEN <<>>
    ELSE LET handler == trigger.handler
             category == IF trigger.category # "" THEN trigger.category ELSE "general"
             description == IF trigger.description # "" THEN trigger.description
                            ELSE handler.message
             intent == [description |-> description,
                        handler |-> [message |-> handler.message,
                                     messageContent |-> handler.messageContent,
                                     blockSubmit |-> handler.blockSubmit,
                                     filter |-> handler.filter,
                                     options |-> handler.options,
                                     messageState |-> messageState],
                        category |-> category]
         IN  <<[id |-> <<messageState, category, index>>,
                match |-> Head(patterns),
                matchType |-> matchType,
                messageState |-> messageState,
                category |-> category,
                intent |-> intent,
                caseSensitive |-> (matchType = "regex"),
                wholeWord |-> (matchType = "string")]>>
             \o commandsOfPatterns(Tail(patterns), matchType, messageState, trigger, index)

commandsOfTrigger(messageState, trigger, index) ==
    (IF trigger.type = "regex"
     THEN commandsOfPatterns(trigger.regex, "regex", messageState, trigger, index)
     ELSE <<>>)
    \o
    (IF trigger.type = "match"
     THEN commandsOfPatterns(trigger.match, "string", messageState, trigger, index)
     ELSE <<>>)

RECURSIVE commandsOfList(_, _, _)
commandsOfList(messageState, triggerList, index) ==
    IF index >= Len(triggerList) THEN <<>>
    ELSE commandsOfTrigger(messageState, triggerList[index + 1], index)
         \o commandsOfList(messageState, triggerList, index + 1)

\* Object.keys(triggers).forEach: triggers is the sequence of <<key, value>>
RECURSIVE commandsOfKeys(_)
commandsOfKeys(triggers) ==
    IF triggers = <<>> THEN <<>>
    ELSE (IF Head(triggers)[1] \in MetaKeys THEN <<>>
          ELSE commandsOfList(Head(triggers)[1], Head(triggers)[2], 0))
         \o commandsOfKeys(Tail(triggers))

\* commands.sort((a, b) => b.match.length - a.match.length), a stable sort
RECURSIVE InsertByLength(_, _)
InsertByLength(sorted, c) ==
    IF sorted = <<>> THEN <<c>>
    ELSE IF Len(c.match) - Len(Head(sorted).match) > 0 THEN <<c>> \o sorted
    ELSE <<Head(sorted)>> \o InsertByLength(Tail(sorted), c)

\* variant: the commands stay in configuration order
sortByLengthKeepsOrder(cs) == cs

RECURSIVE sortByLength(_)
sortByLength(cs) ==
    IF cs = <<>> THEN <<>>
    ELSE InsertByLength(sortByLength(SubSeq(cs, 1, Len(cs) - 1)), cs[Len(cs)])

parseCommandMap(triggerMap) == sortByLength(commandsOfKeys(triggerMap))

\* where the literal search resumes after an accepted occurrence
nextStartIndex(start, index, length) == index + length

\* variant: "/" after the occurrence is an ordinary non-word character
isWholeWordMatchSlashOk(text, start, length) ==
    LET end == start + length
    IN  /\ ~(start > 0 /\ isWordChar(charAt(text, start - 1)))
        /\ ~(end < Len(text) /\ isWordChar(charAt(text, end)))

\* variant: "/" before the occurrence rejects it as "/" after it does
isWholeWordMatchSlashEitherSide(text, start, length) ==
    LET end == start + length
    IN  /\ ~(start > 0 /\ (isWordChar(charAt(text, start - 1))
                            \/ charAt(text, start - 1) = "/"))
        /\ ~(end < Len(text) /\ (isWordChar(charAt(text, end)) \/ charAt(text, end) = "/"))

\* variant: only the character before the occurrence is looked at
isWholeWordMatchLeftOnly(text, start, length) ==
    ~(start > 0 /\ isWordChar(charAt(text, start - 1)))

isWholeWordMatch(text, start, length) ==
    LET end == start + length
    IN  /\ ~(start > 0 /\ isWordChar(charAt(text, start - 1)))
        /\ ~(end < Len(text) /\ (isWordChar(charAt(text, end)) \/ charAt(text, end) = "/"))

\* the while ((match = regex.exec(line)) !== null) loop
RECURSIVE regexLoop(_, _, _, _)
regexLoop(line, command, lineIndex, lastIndex) ==
    LET m == exec(line, RegExpOf(command.match), lastIndex)
    IN  IF m[1] = -1 THEN <<>>
        ELSE <<[text |-> substring(line, m[1], m[2]), line |-> lineIndex,
                col |-> m[1], length |-> m[2] - m[1], command |-> command]>>
             \o regexLoop(line, command, lineIndex, m[2])

\* the while (true) loop over searchText.indexOf(pattern, startIndex)
RECURSIVE stringLoop(_, _, _, _, _, _)
stringLoop(line, searchText, pattern, command, lineIndex, startIndex) ==
    LET index == indexOf(searchText, pattern, startIndex)
    IN  IF index = -1 THEN <<>>
        ELSE IF command.wholeWord /\ ~isWholeWordMatch(line, index, Len(pattern))
        THEN stringLoop(line, searchText, pattern, command, lineIndex, index + 1)
        ELSE <<[text |-> substring(line, index, index + Len(pattern)),
                line |-> lineIndex, col |-> index, length |-> Len(pattern),
                command |-> command]>>
             \o stringLoop(line, searchText, pattern, command, lineIndex,
                           nextStartIndex(startIndex, index, Len(pattern)))

\* variant: a source that does not compile is repaired by dropping its first
\* character, and the rest is searched for as a phrase
regexMatchesRepaired(line, command, lineIndex) ==
    IF throwsSyntaxError(command.match)
    THEN stringLoop(line, line, Tail(command.match), command, lineIndex, 0)
    ELSE regexLoop(line, command, lineIndex, 0)

\* the try block of the regex branch: new RegExp throws on a source that does
\* not compile, the catch block logs, and the empty list is returned
regexMatches(line, command, lineIndex) ==
    IF throwsSyntaxError(command.match) THEN <<>>
    ELSE regexLoop(line, command, lineIndex, 0)

findMatches(line, command, lineIndex) ==
    IF command.matchType = "regex"
    THEN regexMatches(line, command, lineIndex)
    ELSE LET searchText == IF command.caseSensitive THEN line ELSE toLowerCase(line)
             pattern == IF command.caseSensitive THEN command.match
                        ELSE toLowerCase(command.match)
         IN  stringLoop(line, searchText, pattern, command, lineIndex, 0)

\* variant: only a candidate lying wholly inside an accepted range overlaps
overlapsExistingContained(match, existingRanges) ==
    \E k \in 1..Len(existingRanges) :
        match.col >= existingRanges[k].start
        /\ match.col + match.length <= existingRanges[k].end

overlapsExisting(match, existingRanges) ==
    \E k \in 1..Len(existingRanges) :
        match.col < existingRanges[k].end /\ match.col + match.length > existingRanges[k].start

\* Array.prototype.sort is stable: insert each element after every element
\* that does not compare greater.
RECURSIVE InsertByCol(_, _)
InsertByCol(sorted, m) ==
    IF sorted = <<>> THEN <<m>>
    ELSE IF Head(sorted).col - m.col > 0 THEN <<m>> \o sorted
    ELSE <<Head(sorted)>> \o InsertByCol(Tail(sorted), m)

RECURSIVE sortByCol(_)
sortByCol(ms) ==
    IF ms = <<>> THEN <<>>
    ELSE InsertByCol(sortByCol(SubSeq(ms, 1, Len(ms) - 1)), ms[Len(ms)])

\* the inner for loop of scanLine: accept the candidates that overlap nothing
\* accepted so far; acc is <<matches, matchedRanges>>
RECURSIVE acceptAll(_, _)
acceptAll(cands, acc) ==
    IF cands = <<>> THEN acc
    ELSE LET match == Head(cands)
         IN  IF ~overlapsExisting(match, acc[2])
             THEN acceptAll(Tail(cands),
                            <<Append(acc[1], match),
                              Append(acc[2], [start |-> match.col,
                                              end |-> match.col + match.length])>>)
             ELSE acceptAll(Tail(cands), acc)

\* the outer for loop of scanLine over this.commands
RECURSIVE scanCommands(_, _, _, _)
scanCommands(line, lineIndex, cmds, acc) ==
    IF cmds = <<>> THEN acc
    ELSE scanCommands(line, lineIndex, Tail(cmds),
                      acceptAll(findMatches(line, Head(cmds), lineIndex), acc))

\* variant: the accepted matches in acceptance order
scanLineUnsorted(line, lineIndex, cmds) ==
    scanCommands(line, lineIndex, cmds, <<<<>>, <<>>>>)[1]

scanLine(line, lineIndex, cmds) ==
    sortByCol(scanCommands(line, lineIndex, cmds, <<<<>>, <<>>>>)[1])

RECURSIVE scanLines(_, _, _)
scanLines(lines, lineIndex, cmds) ==
    IF lineIndex >= Len(lines) THEN <<>>
    ELSE scanLine(lines[lineIndex + 1], lineIndex, cmds)
         \o scanLines(lines, lineIndex + 1, cmds)

scan(text, cmds) ==
    IF Len(cmds) = 0 THEN <<>>
    ELSE scanLines(split(text), 0, cmds)

\* ------------------------------------------------------------ OverlayRenderer

\* escapeAttr: & " ' < > become character references
EscapeOfChar(c) ==
    CASE c = "&" -> <<"&","a","m","p",";">>
      [] c = "\"" -> <<"&","q","u","o","t",";">>
      [] c = "'" -> <<"&","#","3","9",";">>
      [] c = "<" -> <<"&","l","t",";">>
      [] c = ">" -> <<"&","g","t",";">>
      [] OTHER -> <<c>>

RECURSIVE escapeAttr(_)
escapeAttr(text) ==
    IF text = <<>> THEN <<>> ELSE EscapeOfChar(Head(text)) \o escapeAttr(Tail(text))

\* the character references escapeAttr writes, as the HTML parser reads them
Entities ==
    << <<EscapeOfChar("&"), "&">>, <<EscapeOfChar("\""), "\"">>,
       <<EscapeOfChar("'"), "'">>, <<EscapeOfChar("<"), "<">>,
       <<EscapeOfChar(">"), ">">> >>

\* getAttribute: the attribute value the parser built from the markup
RECURSIVE getAttribute(_)
getAttribute(raw) ==
    IF raw = <<>> THEN <<>>
    ELSE LET hits == {k \in 1..Len(Entities) :
                         /\ Len(Entities[k][1]) <= Len(raw)
                         /\ SubSeq(raw, 1, Len(Entities[k][1])) = Entities[k][1]}
         IN  IF hits = {} THEN <<Head(raw)>> \o getAttribute(Tail(raw))
             ELSE LET k == CHOOSE x \in hits : TRUE
                  IN  <<Entities[k][2]>>
                      \o getAttribute(SubSeq(raw, Len(Entities[k][1]) + 1, Len(raw)))

\* the data-behavior attribute; "" when the attribute is not written
\* variant: a rule with a message gets the bubble even if it has options
behaviorOfMessageFirst(match) ==
    LET handler == match.command.intent.handler
    IN  IF handler.message # "" \/ handler.messageContent # ""
           \/ match.command.intent.description # ""
        THEN "bubble"
        ELSE IF Len(handler.options) > 0 THEN "dropdown"
        ELSE ""

behaviorOf(match) ==
    LET handler == match.command.intent.handler
    IN  IF Len(handler.options) > 0 THEN "dropdown"
        ELSE IF handler.message # "" \/ handler.messageContent # ""
                \/ match.command.intent.description # ""
        THEN "bubble"
        ELSE ""

getMatchDataAttributes(match) ==
    [dataMatchText |-> escapeAttr(match.text),
     dataCommandId |-> match.command.id,
     dataIntent |-> match.command.intent,
     dataBehavior |-> behaviorOf(match),
     dataLine |-> match.line,
     dataCol |-> match.col]

NoAttributes == <<>>

PlainRun(text) == [kind |-> "plain", text |-> text, attrs |-> NoAttributes]

MatchSpan(text, match) ==
    [kind |-> "match", text |-> text, attrs |-> <<getMatchDataAttributes(match)>>]

\* the matches of one line, with start and end columns
getMatchesForLine(line, lineIndex, matches) ==
    LET keep == SelectSeq(matches, LAMBDA m : m.line = lineIndex)
    IN  [k \in 1..Len(keep) |->
            [match |-> keep[k], start |-> keep[k].col,
             end |-> keep[k].col + keep[k].length]]

\* lineMatches.sort((a, b) => a.start - b.start)
RECURSIVE InsertByStart(_, _)
InsertByStart(sorted, m) ==
    IF sorted = <<>> THEN <<m>>
    ELSE IF Head(sorted).start - m.start > 0 THEN <<m>> \o sorted
    ELSE <<Head(sorted)>> \o InsertByStart(Tail(sorted), m)

RECURSIVE sortByStart(_)
sortByStart(ms) ==
    IF ms = <<>> THEN <<>>
    ELSE InsertByStart(sortByStart(SubSeq(ms, 1, Len(ms) - 1)), ms[Len(ms)])

\* variant: the text between lastIndex and a match is not emitted
RECURSIVE renderRunsNoGap(_, _, _)
renderRunsNoGap(line, lineMatches, lastIndex) ==
    IF lineMatches = <<>>
    THEN IF lastIndex < Len(line)
         THEN <<PlainRun(substring(line, lastIndex, Len(line)))>>
         ELSE <<>>
    ELSE LET match == Head(lineMatches)
         IN  <<MatchSpan(substring(line, match.start, match.end), match.match)>>
             \o renderRunsNoGap(line, Tail(lineMatches), match.end)

\* the for loop of renderLine: the runs emitted from lastIndex on
RECURSIVE renderRuns(_, _, _)
renderRuns(line, lineMatches, lastIndex) ==
    IF lineMatches = <<>>
    THEN IF lastIndex < Len(line)
         THEN <<PlainRun(substring(line, lastIndex, Len(line)))>>
         ELSE <<>>
    ELSE LET match == Head(lineMatches)
         IN  (IF match.start > lastIndex
              THEN <<PlainRun(substring(line, lastIndex, match.start))>>
              ELSE <<>>)
             \o <<MatchSpan(substring(line, match.start, match.end), match.match)>>
             \o renderRuns(line, Tail(lineMatches), match.end)

\* one <div class="tq-line">: its runs, and whether it holds the &nbsp; placeholder
renderLine(line, lineIndex, matches) ==
    LET lineMatches == getMatchesForLine(line, lineIndex, matches)
    IN  IF Len(lineMatches) = 0
        THEN [runs |-> IF line = <<>> THEN <<>> ELSE <<PlainRun(line)>>,
              nbsp |-> (line = <<>>)]
        ELSE [runs |-> renderRuns(line, sortByStart(lineMatches), 0),
              nbsp |-> (Len(line) = 0)]

\* OverlayRenderer.render: the overlay's line elements
renderOverlay(text, matches) ==
    LET lines == split(text)
    IN  [i \in 1..Len(lines) |-> renderLine(lines[i], i - 1, matches)]

\* overlay.querySelectorAll('.tq-match'), in document order
RECURSIVE matchElements(_)
matchElements(lineEls) ==
    IF lineEls = <<>> THEN <<>>
    ELSE SelectSeq(Head(lineEls).runs, LAMBDA r : r.kind = "match")
         \o matchElements(Tail(lineEls))

\* ------------------------------------------------------------ InteractionHandler

\* getMatchData: what the handlers read back from a match element
getMatchData(matchEl) ==
    LET a == matchEl.attrs[1]
    IN  [text |-> getAttribute(a.dataMatchText),
         line |-> a.dataLine,
         col |-> a.dataCol,
         intent |-> a.dataIntent,
         command |-> [id |-> a.dataCommandId, behavior |-> a.dataBehavior]]

\* ------------------------------------------------------------ DropdownManager

\* The manager's fields. null is the empty sequence, a value v is <<v>>;
\* activeDropdownMatch is the position of the match element among the
\* overlay's match elements (0 is null); selectedDropdownIndex is 0-based.
NewDropdownManager ==
    [activeDropdown |-> <<>>, activeDropdownMatch |-> 0, dropdownOptions |-> <<>>,
     dropdownMatchData |-> <<>>, selectedDropdownIndex |-> 0]

hideDropdown(dm) ==
    IF dm.activeDropdown # <<>> THEN NewDropdownManager ELSE dm

\* the .tq-dropdown-item elements, one per option; def is the class definition
\* in use (the second one renders a user-input option as an input container)
createDropdownItems(options, def) ==
    [k \in 1..Len(options) |->
        IF def = 2 /\ options[k].userInput
        THEN [textContent |-> <<>>, userInput |-> TRUE, display |-> "block"]
        ELSE [textContent |-> options[k].label, userInput |-> FALSE, display |-> "block"]]

\* variant: the selected index of the dropdown that was active is kept
showDropdownKeepsSelection(dm, matchEl, matchData, def) ==
    LET options == matchData.intent.handler.options
    IN  IF Len(options) = 0 THEN hideDropdown(dm)
        ELSE [activeDropdown |-> <<[hasFilter |-> matchData.intent.handler.filter,
                                    filterValue |-> <<>>,
                                    items |-> createDropdownItems(options, def)]>>,
              activeDropdownMatch |-> matchEl,
              dropdownOptions |-> <<options>>,
              dropdownMatchData |-> <<matchData>>,
              selectedDropdownIndex |-> dm.selectedDropdownIndex]

showDropdown(dm, matchEl, matchData, def) ==
    LET closed == hideDropdown(dm)
        options == matchData.intent.handler.options
    IN  IF Len(options) = 0 THEN closed
        ELSE [activeDropdown |-> <<[hasFilter |-> matchData.intent.handler.filter,
                                    filterValue |-> <<>>,
                                    items |-> createDropdownItems(options, def)]>>,
              activeDropdownMatch |-> matchEl,
              dropdownOptions |-> <<options>>,
              dropdownMatchData |-> <<matchData>>,
              selectedDropdownIndex |-> 0]

\* 0-based indices of the items whose display is not 'none', in order
visibleItems(items) ==
    LET idx == [k \in 1..Len(items) |-> k - 1]
    IN  SelectSeq(idx, LAMBDA i : items[i + 1].display # "none")

\* visibleItems.findIndex(item => index of item === selectedDropdownIndex)
findVisible(visible, selected) ==
    LET hits == {k \in 1..Len(visible) : visible[k] = selected}
    IN  IF hits = {} THEN -1 ELSE (CHOOSE k \in hits : TRUE) - 1

\* variant: the index is moved by the direction and never wrapped
moveDropdownSelectionNoWrap(dm, direction) ==
    IF dm.activeDropdown = <<>> \/ dm.dropdownOptions = <<>> THEN dm
    ELSE [dm EXCEPT !.selectedDropdownIndex = @ + direction]

\* variant: the selection moves among all the items, displayed or not
moveDropdownSelectionAmongAll(dm, direction) ==
    IF dm.activeDropdown = <<>> \/ dm.dropdownOptions = <<>> THEN dm
    ELSE LET n == Len(dm.activeDropdown[1].items)
         IN  [dm EXCEPT !.selectedDropdownIndex = (@ + direction + n) % n]

moveDropdownSelection(dm, direction) ==
    IF dm.activeDropdown = <<>> \/ dm.dropdownOptions = <<>> THEN dm
    ELSE LET visible == visibleItems(dm.activeDropdown[1].items)
             moved == findVisible(visible, dm.selectedDropdownIndex) + direction
             wrapped == IF moved < 0 THEN Len(visible) - 1
                        ELSE IF moved >= Len(visible) THEN 0
                        ELSE moved
         IN  IF Len(visible) = 0 THEN dm
             ELSE [dm EXCEPT !.selectedDropdownIndex = visible[wrapped + 1]]

\* variant of the first definition: the trigger text stays in front of the display text
handleDropdownSelectReplaceKeepsTrigger(option, matchData, value) ==
    IF option.hasOnSelect /\ option.display # <<>>
    THEN LET lines == split(value)
             line == IF matchData.line < Len(lines) THEN lines[matchData.line + 1] ELSE <<>>
         IN  IF line # <<>>
             THEN LET before == substring(line, 0, matchData.col + Len(matchData.text))
                      after == substring(line, matchData.col + Len(matchData.text), Len(line))
                  IN  <<join([lines EXCEPT ![matchData.line + 1] =
                                  before \o option.display \o after])>>
             ELSE <<>>
    ELSE <<>>

\* handleDropdownSelect, first class definition: the new textarea value, or
\* <<>> when the textarea is left alone; <<v>> is followed by an input event
handleDropdownSelectReplace(option, matchData, value) ==
    IF option.hasOnSelect /\ option.display # <<>>
    THEN LET lines == split(value)
             line == IF matchData.line < Len(lines) THEN lines[matchData.line + 1] ELSE <<>>
         IN  IF line # <<>>
             THEN LET before == substring(line, 0, matchData.col)
                      after == substring(line, matchData.col + Len(matchData.text), Len(line))
                  IN  <<join([lines EXCEPT ![matchData.line + 1] =
                                  before \o option.display \o after])>>
             ELSE <<>>
    ELSE <<>>

\* variant of the second definition: the parts are joined without the "/"
handleDropdownSelectAppendNoSeparator(option, matchData, value) ==
    IF option.hasOnSelect /\ option.display # <<>>
    THEN LET lines == split(value)
             line == IF matchData.line < Len(lines) THEN lines[matchData.line + 1] ELSE <<>>
         IN  IF line # <<>>
             THEN LET before == substring(line, 0, matchData.col)
                      after == substring(line, matchData.col + Len(matchData.text), Len(line))
                      newText == matchData.text \o option.display
                  IN  <<join([lines EXCEPT ![matchData.line + 1] =
                                  before \o newText \o after])>>
             ELSE <<>>
    ELSE <<>>

\* handleDropdownSelect, second class definition
handleDropdownSelectAppend(option, matchData, value) ==
    IF option.hasOnSelect /\ option.display # <<>>
    THEN LET lines == split(value)
             line == IF matchData.line < Len(lines) THEN lines[matchData.line + 1] ELSE <<>>
         IN  IF line # <<>>
             THEN LET before == substring(line, 0, matchData.col)
                      after == substring(line, matchData.col + Len(matchData.text), Len(line))
                      newText == matchData.text \o <<"/">> \o option.display
                  IN  <<join([lines EXCEPT ![matchData.line + 1] =
                                  before \o newText \o after])>>
             ELSE <<>>
    ELSE <<>>

handleDropdownSelect(option, matchData, value, def) ==
    IF def = 1 THEN handleDropdownSelectReplace(option, matchData, value)
    ELSE handleDropdownSelectAppend(option, matchData, value)

\* variant: the value is taken as typed
trimNothing(v) == v

\* String.prototype.trim() for the white space the model types
RECURSIVE trimStart(_)
trimStart(v) == IF v # <<>> /\ Head(v) \in {" ", NL} THEN trimStart(Tail(v)) ELSE v

RECURSIVE trimEnd(_)
trimEnd(v) ==
    IF v # <<>> /\ v[Len(v)] \in {" ", NL} THEN trimEnd(SubSeq(v, 1, Len(v) - 1)) ELSE v

trim(v) == trimEnd(trimStart(v))

\* String.prototype.includes
includes(s, pattern) == indexOf(s, pattern, 0) # -1

\* variant: the texts are compared as they are written
filterInputCaseSensitive(dm, value) ==
    LET dropdown == dm.activeDropdown[1]
        items == [k \in 1..Len(dropdown.items) |->
                     [dropdown.items[k] EXCEPT !.display =
                         IF includes(dropdown.items[k].textContent, value)
                         THEN "block" ELSE "none"]]
        visible == visibleItems(items)
    IN  [dm EXCEPT !.activeDropdown =
                       <<[dropdown EXCEPT !.items = items, !.filterValue = value]>>,
                   !.selectedDropdownIndex =
                       IF visible # <<>> THEN visible[1] ELSE @]

\* the filter field's 'input' listener with e.target.value = value: each item is
\* displayed iff its lower-cased textContent includes the lower-cased value, and
\* the selection moves to the first displayed item if there is one
filterInput(dm, value) ==
    LET query == toLowerCase(value)
        dropdown == dm.activeDropdown[1]
        items == [k \in 1..Len(dropdown.items) |->
                     [dropdown.items[k] EXCEPT !.display =
                         IF includes(toLowerCase(dropdown.items[k].textContent), query)
                         THEN "block" ELSE "none"]]
        visible == visibleItems(items)
        firstVisibleIndex == IF visible = <<>> THEN -1 ELSE visible[1]
    IN  [dm EXCEPT !.activeDropdown =
                       <<[dropdown EXCEPT !.items = items, !.filterValue = value]>>,
                   !.selectedDropdownIndex =
                       IF firstVisibleIndex # -1 THEN firstVisibleIndex ELSE @]

\* the element that has the focus: the textarea, the dropdown's filter field,
\* the text box of a user-input option, or something else (the body)
FocusTargets == {"textarea", "filter", "userInput", "other"}

\* variant: no focus target counts as part of the dropdown
InsideDropdownNone == {}

InsideDropdown == {"filter", "userInput"}

\* activeDropdown.remove(): a focused element of the removed dropdown loses the focus
focusAfterRemove(focus) == IF focus \in InsideDropdown THEN "other" ELSE focus

\* updateDropdownSelection: the second definition focuses the text box of a
\* selected user-input item and blurs it when another item is selected
focusAfterSelection(dm, focus, def) ==
    IF dm.activeDropdown = <<>> THEN focus
    ELSE IF def = 2 /\ dm.activeDropdown[1].items[dm.selectedDropdownIndex + 1].userInput
    THEN "userInput"
    ELSE IF focus = "userInput" THEN "other"
    ELSE focus

\* ------------------------------------------------------------ BubbleManager

\* getBubbleContent: the message to show, "" for none
getBubbleContent(matchData) ==
    IF matchData.intent.handler.message # "" THEN matchData.intent.handler.message
    ELSE IF matchData.intent.handler.messageContent # ""
    THEN matchData.intent.handler.messageContent
    ELSE matchData.intent.description

\* hideBubble(): currentBubble afterwards
hideBubble(currentBubble) == <<>>

\* showBubble(matchEl, matchData): currentBubble afterwards
showBubble(currentBubble, matchData) ==
    IF getBubbleContent(matchData) = "" THEN hideBubble(currentBubble)
    ELSE <<[content |-> getBubbleContent(matchData),
            messageState |-> matchData.intent.handler.messageState,
            matchData |-> matchData]>>

\* variant: leaving the match hides the bubble at once
bubbleAfterMouseLeaveHidden(currentBubble) == <<>>

\* handleMouseLeave: the bubble is not hidden, so that the pointer can move onto it
bubbleAfterMouseLeave(currentBubble) == currentBubble

\* variant: handleMouseLeave leaves the pending hover timer running
cancelHoverTimeoutKeeps(hoverTimeout) ==
    [k \in 1..Len(hoverTimeout) |-> [hoverTimeout[k] EXCEPT !.left = TRUE]]

\* handleMouseLeave: clearTimeout(this.hoverTimeout); this.hoverTimeout = null
cancelHoverTimeout(hoverTimeout) == <<>>

\* variant: cleanup() leaves a pending hover timer running
clearHoverTimeoutKeeps(hoverTimeout) ==
    [k \in 1..Len(hoverTimeout) |-> [hoverTimeout[k] EXCEPT !.superseded = TRUE]]

\* InteractionHandler.cleanup(): clearTimeout(this.hoverTimeout)
clearHoverTimeout(hoverTimeout) == <<>>

\* ------------------------------------------------------------ InteractionHandler.update

\* variant: showDropdown() is called for every match element, whatever its behaviour
RECURSIVE autoShowEveryMatch(_, _, _, _)
autoShowEveryMatch(dm, els, k, def) ==
    IF k > Len(els) THEN dm
    ELSE LET matchEl == els[k]
             shown == IF \/ dm.activeDropdownMatch = 0
                         \/ els[dm.activeDropdownMatch].text # matchEl.text
                      THEN showDropdown(dm, k, getMatchData(matchEl), def)
                      ELSE dm
         IN  autoShowEveryMatch(shown, els, k + 1, def)

\* the matches.forEach of update(): element k of els onwards
RECURSIVE autoShow(_, _, _, _)
autoShow(dm, els, k, def) ==
    IF k > Len(els) THEN dm
    ELSE LET matchEl == els[k]
             behavior == matchEl.attrs[1].dataBehavior
             shown == IF behavior = "dropdown"
                         /\ (\/ dm.activeDropdownMatch = 0
                             \/ els[dm.activeDropdownMatch].text # matchEl.text)
                      THEN showDropdown(dm, k, getMatchData(matchEl), def)
                      ELSE dm
         IN  autoShow(shown, els, k + 1, def)

\* variant: update() only cleans up
updateCleanupOnly(dm, overlayEls, def) == hideDropdown(dm)

\* variant: a menu that is open stays as it is, with the anchor it has
updateKeepsOpenMenu(dm, overlayEls, def) ==
    IF dm.activeDropdown # <<>> THEN dm
    ELSE autoShow(dm, matchElements(overlayEls), 1, def)

\* cleanup(), then the listeners and the automatic dropdown of each match element
update(dm, overlayEls, def) ==
    autoShow(hideDropdown(dm), matchElements(overlayEls), 1, def)

\* ------------------------------------------------------------ ValidationStateManager

EmptyValidationState ==
    [hasBlockingError |-> FALSE, errors |-> <<>>, warnings |-> <<>>, info |-> <<>>]

\* match.intent?.handler?.['message-state']; "" is undefined
messageStateOf(match) ==
    IF "intent" \in DOMAIN match THEN match.intent.handler.messageState ELSE ""

\* match.intent?.handler?.['block-submit'] === true
blockSubmitOf(match) ==
    IF "intent" \in DOMAIN match THEN match.intent.handler.blockSubmit = TRUE ELSE FALSE

\* the newState that update(matches) builds
categorize(matches) ==
    [hasBlockingError |-> \E k \in 1..Len(matches) : blockSubmitOf(matches[k]),
     errors |-> SelectSeq(matches, LAMBDA m : messageStateOf(m) = "error"),
     warnings |-> SelectSeq(matches, LAMBDA m : messageStateOf(m) = "warning"),
     info |-> SelectSeq(matches, LAMBDA m : messageStateOf(m) = "info")]

\* variant: the lists themselves are compared, not their lengths
stateChangedByIdentity(state, newState) == state # newState

stateChanged(state, newState) ==
    \/ state.hasBlockingError # newState.hasBlockingError
    \/ Len(state.errors) # Len(newState.errors)
    \/ Len(state.warnings) # Len(newState.warnings)
    \/ Len(state.info) # Len(newState.info)

\* variant: the new summary is stored whether or not the host is told
validationUpdateStoresAlways(state, matches) == categorize(matches)

\* the argument of the most recent onValidationChange call after update(matches)
reportedAfter(reported, state, matches) ==
    IF stateChanged(state, categorize(matches)) THEN categorize(matches) ELSE reported

\* ValidationStateManager.update: the stored state afterwards
validationUpdate(state, matches) ==
    IF stateChanged(state, categorize(matches)) THEN categorize(matches) ELSE state

\* ------------------------------------------------------------ configurations

Handler(message, blockSubmit, filter, options) ==
    [message |-> message, messageContent |-> "", blockSubmit |-> blockSubmit,
     filter |-> filter, options |-> options]

\* a handler with nothing but "message-content"
ContentHandler(content) ==
    [Handler("", FALSE, FALSE, <<>>) EXCEPT !.messageContent = content]

MatchTrigger(phrases, handler) ==
    [type |-> "match", match |-> phrases, regex |-> <<>>, category |-> "",
     description |-> "", handler |-> handler]

RegexTrigger(sources, handler) ==
    [type |-> "regex", match |-> <<>>, regex |-> sources, category |-> "",
     description |-> "", handler |-> handler]

\* {label, "on-select": {display}}
PlainOption(label, display) ==
    [label |-> label, hasOnSelect |-> TRUE, display |-> display, userInput |-> FALSE]

\* {label} with no on-select
LabelOption(label) ==
    [label |-> label, hasOnSelect |-> FALSE, display |-> <<>>, userInput |-> FALSE]

\* {label, "user-input": true, placeholder}
UserInputOption(label) ==
    [label |-> label, hasOnSelect |-> FALSE, display |-> <<>>, userInput |-> TRUE]

Blackrock == <<"B","l","a","c","k","r","o","c","k">>

ClientOptions ==
    <<PlainOption(Blackrock, Blackrock), UserInputOption(<<"O">>), LabelOption(<<"N">>),
      PlainOption(<<"E">>, <<>>)>>

SmallOptions == <<PlainOption(<<"T">>, <<"T">>), UserInputOption(<<"O">>),
                  PlainOption(<<"e">>, <<"x">>)>>

CfgEmpty == <<>>

CfgTest == << <<"info", <<MatchTrigger(<<<<"t","e","s","t">>>>, Handler("note", FALSE, FALSE, <<>>))>> >> >>

CfgEmail ==
    << <<"error", <<RegexTrigger(<<SrcEmail>>, Handler("no email", TRUE, FALSE, <<>>))>> >> >>

CfgClient ==
    << <<"info", <<MatchTrigger(<<<<"@","c","l","i","e","n","t">>>>, Handler("", FALSE, FALSE, ClientOptions))>> >> >>

CfgPair ==
    << <<"$schema", <<>> >>,
       <<"info", <<MatchTrigger(<<SrcTe>>, Handler("", FALSE, TRUE, SmallOptions))>> >>,
       <<"error", <<RegexTrigger(<<SrcEPlus>>, Handler("stop", TRUE, FALSE, <<>>))>> >> >>

CfgOverlap ==
    << <<"error", <<RegexTrigger(<<SrcClassT>>, Handler("stop", TRUE, FALSE, <<>>))>> >>,
       <<"warning", <<RegexTrigger(<<SrcE>>, Handler("", FALSE, FALSE, <<>>))>> >>,
       <<"info", <<MatchTrigger(<<SrcTe>>, Handler("", FALSE, FALSE, SmallOptions))>> >> >>

CfgCase ==
    << <<"warning", <<RegexTrigger(<<SrcTe>>, Handler("careful", FALSE, FALSE, <<>>)),
                      MatchTrigger(<<<<"t">>, <<"e","e">>>>, Handler("", TRUE, FALSE, <<>>))>> >> >>

Configs == {CfgEmpty, CfgTest, CfgEmail, CfgClient, CfgPair, CfgOverlap, CfgCase}

\* a regex entry whose first pattern does not compile, and the same document
\* without that pattern
CfgMalformed ==
    << <<"error", <<RegexTrigger(<<SrcOpenClass, SrcEPlus>>,
                                 Handler("stop", TRUE, FALSE, <<>>))>> >>,
       <<"info", <<MatchTrigger(<<SrcTe>>, Handler("", FALSE, FALSE, SmallOptions))>> >> >>

CfgMalformedRemoved ==
    << <<"error", <<RegexTrigger(<<SrcEPlus>>, Handler("stop", TRUE, FALSE, <<>>))>> >>,
       <<"info", <<MatchTrigger(<<SrcTe>>, Handler("", FALSE, FALSE, SmallOptions))>> >> >>

\* rules of each kind: options and a message, a message-content only, nothing
CfgAffordance ==
    << <<"info", <<MatchTrigger(<<SrcTe>>, Handler("pick", FALSE, FALSE, SmallOptions))>> >>,
       <<"error", <<RegexTrigger(<<SrcEPlus>>, ContentHandler("why"))>> >>,
       <<"warning", <<MatchTrigger(<<<<"t">>>>, Handler("", FALSE, FALSE, <<>>))>> >> >>

\* rules of each kind: options only, a description only, a message only
CfgDescribed ==
    << <<"info", <<MatchTrigger(<<SrcTe>>, Handler("", FALSE, FALSE, SmallOptions))>> >>,
       <<"error", <<[RegexTrigger(<<SrcEPlus>>, Handler("", FALSE, FALSE, <<>>))
                       EXCEPT !.description = "vowel"]>> >>,
       <<"warning", <<MatchTrigger(<<<<"t">>>>, Handler("one", FALSE, FALSE, <<>>))>> >> >>

AffordanceConfigs == {CfgAffordance, CfgDescribed}

TxtThree == <<"t", "e", " ", "e", " ", "t">>

AffordanceTexts == {TxtThree, <<"t", " ", "t", "e">>, <<"e">>}

\* rules whose loops are followed one iteration at a time: a regex that matches
\* the empty string, one that does not, one that does not compile, the empty
\* phrase and a phrase
CfgLoops ==
    << <<"error", <<RegexTrigger(<<SrcEStar, SrcEPlus, SrcOpenClass>>,
                                 Handler("stop", TRUE, FALSE, <<>>))>> >>,
       <<"info", <<MatchTrigger(<<<<>>, SrcTe>>, Handler("note", FALSE, FALSE, <<>>))>> >> >>

\* the lines findMatches is called with
ScannerAlphabet == {"t", "e", " "}

\* how many iterations of one findMatches call are followed
MaxIterations == 6

\* the documents the fetch of the trigger map can deliver
LoadConfigs == {CfgMalformed, CfgPair}

TxtTesting == <<"t","e","s","t","i","n","g">>

TxtATest == <<"a"," ","t","e","s","t">>

TxtTestOk == <<"t","e","s","t","/","o","k">>

TxtUpperTest == <<"T","E","S","T"," ","i","t">>

TxtEmail == <<"e","m","a","i","l"," ","m","e"," ","a","t"," ","a","@","b",".","c","o","m"," ","p","l","e","a","s","e">>

TxtPing == <<"p","i","n","g"," ","@","c","l","i","e","n","t"," ","n","o","w">>

TxtPingDone == <<"p","i","n","g"," ","@","c","l","i","e","n","t","/","B","l","a","c","k","r","o","c","k"," ","n","o","w">>

TxtPingReplaced == <<"p","i","n","g"," ","B","l","a","c","k","r","o","c","k"," ","n","o","w">>

TxtDotted == <<DottedI," ","@","c","l","i","e","n","t"," "," ","x">>

TxtLines == <<"t","e",NL,NL,"e","e"," ","t">>

ExampleTexts == {TxtTesting, TxtATest, TxtTestOk, TxtUpperTest, TxtEmail, TxtPing,
                 TxtDotted, TxtLines}

\* a filterable menu with a user-input option, and a rule with a message
SessionOptions ==
    <<PlainOption(<<"T">>, <<"T">>), UserInputOption(<<"E", "t">>),
      PlainOption(<<"e">>, <<"x">>), PlainOption(<<"T", "e">>, <<"x">>)>>

CfgSession ==
    << <<"info", <<MatchTrigger(<<SrcTe>>, Handler("", FALSE, TRUE, SessionOptions))>> >>,
       <<"error", <<RegexTrigger(<<SrcEPlus>>, Handler("stop", TRUE, FALSE, <<>>))>> >> >>

SessionConfigs == {CfgSession, CfgEmpty}

TxtTwice == <<"t", "e", " ", "t", "e">>

SessionTexts == {TxtLines, TxtTwice, SrcTe}

SessionAlphabet == {" "}

\* what the user types into a filter field
FilterValues == {<<>>, <<"E">>, <<"x">>}

\* what the user can type
Alphabet == {"t", "e", "/", " "}

\* the longest text typing extends
MaxLen == 3

\* values typed into a user-input option's text box
UserValues == {<<" ">>, <<" ", "x">>}

\* the longest text a selection is committed into
MaxCommitLen == 16

\* the most options any configuration's menu holds
MaxItems == 4

\* the most onValidationChange invocations a run follows
MaxCalls == 3

\* the longest match list handed to ValidationStateManager.update directly
MaxMatches == 2

\* variant: the dropdown that the render opened survives the selection
hideAfterSelectKeeps(dm) == dm

\* the hideDropdown() that follows handleDropdownSelect() in
\* selectCurrentDropdownItem, in an item's click listener and in handleSubmit
hideAfterSelect(dm) == hideDropdown(dm)

\* ------------------------------------------------------------ state

VARIABLES
    commands,          \* CommandScanner.commands
    text,              \* textarea.value
    matches,           \* the match list of the last render
    overlay,           \* the overlay's line elements
    dropdownManager,   \* the DropdownManager's fields
    dropdownDef,       \* which of the two DropdownManager definitions is loaded
    placement,         \* <<>>, or the last positioning call: what it was given and
                       \* the style.top and style.left it computed
    destroyed,         \* <<>> until destroy() has returned, then the matches, the
                       \* overlay and the last validation update it left behind
    validationState,   \* ValidationStateManager.state
    lastUpdate,        \* the last ValidationStateManager.update: its argument,
                       \* the stored state before it, whether it called the host,
                       \* the argument of the most recent call of the host
    calls,             \* onValidationChange invocations so far
    lastEvent,         \* the last handler that ran, and what it was given
    rendered,          \* the DropdownManager's fields when the last render() returned
    currentBubble,     \* BubbleManager.currentBubble
    hoverTimeout,      \* the pending timer of InteractionHandler.hoverTimeout
    focus,             \* document.activeElement
    blurTimer,         \* whether the textarea blur listener's timer is pending
    isReady,           \* TrustQuery.isReady
    frame              \* the findMatches call in progress: its arguments and locals

vars == <<commands, text, matches, overlay, dropdownManager, dropdownDef, destroyed, placement,
          validationState, lastUpdate, calls, lastEvent, rendered, currentBubble,
          hoverTimeout, focus, blurTimer, isReady, frame>>

\* what a render writes, apart from the DropdownManager
scanVars == <<text, matches, overlay, validationState, lastUpdate, calls, rendered>>

\* a handler's record: what it was given, and whether a dropdown was active,
\* a hover timer pending and a bubble shown when it started
Event(kind, before, option, matchData, dropdown) ==
    [kind |-> kind, before |-> before, option |-> option, matchData |-> matchData,
     dropdown |-> dropdown, wasActive |-> dropdownManager.activeDropdown # <<>>,
     wasPending |-> hoverTimeout # <<>>, wasShown |-> currentBubble # <<>>,
     typed |-> <<>>, wordClicks |-> 0]

\* the textarea's blur listener starts its timer when the focus leaves the textarea
blurAfter(newFocus) == blurTimer \/ (focus = "textarea" /\ newFocus # "textarea")

\* TrustQuery.render() once textarea.value and the commands are settled: scan,
\* render the overlay, update the interaction handler (after which the caller
\* may hide the dropdown again), update the validation state
Render(hideAfter) ==
    /\ matches' = scan(text', commands')
    /\ overlay' = renderOverlay(text', matches')
    /\ currentBubble' = hideBubble(currentBubble)
    /\ hoverTimeout' = clearHoverTimeout(hoverTimeout)
    /\ rendered' = update(dropdownManager, overlay', dropdownDef)
    /\ dropdownManager' = IF hideAfter THEN hideAfterSelect(rendered') ELSE rendered'
    /\ focus' = IF dropdownManager.activeDropdown # <<>> \/ hideAfter
                THEN focusAfterRemove(focus) ELSE focus
    /\ UNCHANGED blurTimer
    /\ validationState' = validationUpdate(validationState, matches')
    /\ lastUpdate' = [arg |-> matches', before |-> validationState,
                      notified |-> stateChanged(validationState, categorize(matches')),
                      reported |-> reportedAfter(lastUpdate.reported, validationState,
                                                 matches')]
    /\ calls' = IF lastUpdate'.notified THEN calls + 1 ELSE calls

NoEvent ==
    [kind |-> "", before |-> <<>>, option |-> <<>>, matchData |-> <<>>,
     dropdown |-> <<>>, wasActive |-> FALSE, wasPending |-> FALSE, wasShown |-> FALSE,
     typed |-> <<>>, wordClicks |-> 0]

\* new TrustQuery(textarea, {commandMap, autoLoadCommandMap: false}) on an empty
\* textarea: the command map is parsed, then the first render runs
InitWith(configs) ==
    /\ dropdownDef \in {1, 2}
    /\ destroyed = <<>>
    /\ placement = <<>>
    /\ \E cfg \in configs : commands = parseCommandMap(cfg)
    /\ text = <<>>
    /\ matches = scan(text, commands)
    /\ overlay = renderOverlay(text, matches)
    /\ dropdownManager = update(NewDropdownManager, overlay, dropdownDef)
    /\ rendered = dropdownManager
    /\ validationState = validationUpdate(EmptyValidationState, matches)
    /\ lastUpdate = [arg |-> matches, before |-> EmptyValidationState,
                     notified |-> stateChanged(EmptyValidationState, categorize(matches)),
                     reported |-> reportedAfter(EmptyValidationState, EmptyValidationState,
                                                matches)]
    /\ calls = 0
    /\ lastEvent = NoEvent
    /\ currentBubble = <<>>
    /\ hoverTimeout = <<>>
    /\ focus = "textarea"
    /\ blurTimer = FALSE
    /\ isReady = TRUE
    /\ frame = <<>>

Init == InitWith(Configs)

\* ------------------------------------------------------------ operations

\* the user types c at the end of the text: the 'input' listener renders
Input(c) ==
    /\ focus = "textarea"
    /\ Len(text) < MaxLen
    /\ calls < MaxCalls
    /\ text' = text \o <<c>>
    /\ UNCHANGED <<commands, dropdownDef, destroyed, placement, isReady, frame>>
    /\ Render(FALSE)
    /\ lastEvent' = Event("edit", <<>>, <<>>, <<>>, <<>>)

\* the user deletes the last character of a text short enough to type
Backspace ==
    /\ focus = "textarea"
    /\ Len(text) > 0
    /\ Len(text) <= MaxLen
    /\ calls < MaxCalls
    /\ text' = SubSeq(text, 1, Len(text) - 1)
    /\ UNCHANGED <<commands, dropdownDef, destroyed, placement, isReady, frame>>
    /\ Render(FALSE)
    /\ lastEvent' = Event("edit", <<>>, <<>>, <<>>, <<>>)

\* TrustQuery.setValue(value)
SetValue(value) ==
    /\ calls < MaxCalls
    /\ text' = value
    /\ UNCHANGED <<commands, dropdownDef, destroyed, placement, isReady, frame>>
    /\ Render(FALSE)
    /\ lastEvent' = Event("edit", <<>>, <<>>, <<>>, <<>>)

\* variant: updateCommandMap renders whether or not the instance is ready
rendersOnUpdateAlways(ready) == TRUE

\* if (this.isReady) in updateCommandMap
rendersOnUpdate(ready) == ready

\* TrustQuery.updateCommandMap(commandMap): the scanner takes the new commands,
\* and the instance renders if it is ready
UpdateCommandMap(cfg) ==
    /\ calls < MaxCalls
    /\ commands' = parseCommandMap(cfg)
    /\ UNCHANGED <<text, dropdownDef, destroyed, placement, isReady, frame>>
    /\ IF rendersOnUpdate(isReady) THEN Render(FALSE)
       ELSE UNCHANGED <<scanVars, dropdownManager, currentBubble, hoverTimeout,
                        focus, blurTimer>>
    /\ lastEvent' = NoEvent

\* handleDropdownSelect(option, matchData) followed by hideDropdown(): the tail
\* of selectCurrentDropdownItem, of an item's click listener and of handleSubmit
\* (typed is <<v>> when the option was made from the value v of a text box)
Commit(kind, option, matchData, typed) ==
    LET newValue == handleDropdownSelect(option, matchData, text, dropdownDef)
    IN  /\ Len(text) <= MaxCommitLen
        /\ lastEvent' = [Event(kind, text, <<option>>, <<matchData>>, <<dropdownManager>>)
                             EXCEPT !.typed = typed]
        /\ UNCHANGED <<commands, dropdownDef, destroyed, placement, isReady, frame>>
        /\ IF newValue # <<>>
           THEN \* textarea.value is set and the dispatched 'input' event renders
                /\ text' = newValue[1]
                /\ Render(TRUE)
           ELSE /\ dropdownManager' = hideAfterSelect(dropdownManager)
                /\ focus' = focusAfterRemove(focus)
                /\ UNCHANGED <<scanVars, currentBubble, hoverTimeout, blurTimer>>

\* keydown ArrowDown (1) or ArrowUp (-1) while a dropdown is active: in the
\* filter field it only hands the focus back to the textarea; in the text box
\* of a user-input option it moves the selection and focuses the textarea;
\* anywhere else the document's handler moves the selection
\* variant: the filter field's listener moves the selection as the document's does
filterArrowSelectionMoves(dm, direction) == moveDropdownSelection(dm, direction)

\* ArrowDown / ArrowUp in the filter field: its keydown listener stops the
\* propagation, so the document's handler never runs and the manager's fields
\* stay as they are
filterArrowSelection(dm, direction) == dm

KeyArrow(direction) ==
    /\ dropdownManager.activeDropdown # <<>>
    /\ LET moved == moveDropdownSelection(dropdownManager, direction)
           base == IF focus = "userInput" THEN "textarea" ELSE focus
           newFocus ==
               IF visibleItems(dropdownManager.activeDropdown[1].items) = <<>>
               THEN base
               ELSE focusAfterSelection(moved, base, dropdownDef)
       IN  IF focus = "filter"
           THEN /\ focus' = "textarea"
                /\ dropdownManager' = filterArrowSelection(dropdownManager, direction)
                /\ UNCHANGED blurTimer
                /\ lastEvent' = [Event("filterArrow", <<>>, <<>>, <<>>, <<dropdownManager>>)
                                     EXCEPT !.typed = <<direction>>]
           ELSE /\ dropdownManager' = moved
                /\ focus' = newFocus
                /\ blurTimer' = blurAfter(newFocus)
                /\ lastEvent' = NoEvent
    /\ UNCHANGED <<commands, dropdownDef, destroyed, placement, isReady, frame, scanVars,
                   currentBubble,
                   hoverTimeout>>

\* keydown Enter while a dropdown is active, in the filter field or reaching
\* the document's handler: selectCurrentDropdownItem
KeyEnter ==
    /\ dropdownManager.activeDropdown # <<>>
    /\ focus # "userInput"
    /\ calls < MaxCalls
    /\ LET dm == dropdownManager
           selectedItem == dm.activeDropdown[1].items[dm.selectedDropdownIndex + 1]
       IN  IF dropdownDef = 2 /\ selectedItem.userInput
           THEN \* the input field is focused instead
                /\ lastEvent' = NoEvent
                /\ focus' = "userInput"
                /\ blurTimer' = blurAfter("userInput")
                /\ UNCHANGED <<commands, dropdownManager, dropdownDef, destroyed, placement,
                               isReady,
                               frame, scanVars,
                               currentBubble, hoverTimeout>>
           ELSE Commit("enter", dm.dropdownOptions[1][dm.selectedDropdownIndex + 1],
                       dm.dropdownMatchData[1], <<>>)

\* keydown Escape while a dropdown is active, wherever the focus is
KeyEscape ==
    /\ dropdownManager.activeDropdown # <<>>
    /\ dropdownManager' = hideDropdown(dropdownManager)
    /\ focus' = focusAfterRemove(focus)
    /\ lastEvent' = Event("escape", <<>>, <<>>, <<>>, <<>>)
    /\ UNCHANGED <<commands, dropdownDef, destroyed, placement, isReady, frame, scanVars,
                   currentBubble,
                   hoverTimeout,
                   blurTimer>>

\* click on the i-th dropdown item (0-based) that is displayed and is no input container
ItemClick(i) ==
    /\ dropdownManager.activeDropdown # <<>>
    /\ calls < MaxCalls
    /\ i < Len(dropdownManager.activeDropdown[1].items)
    /\ dropdownManager.activeDropdown[1].items[i + 1].display # "none"
    /\ ~dropdownManager.activeDropdown[1].items[i + 1].userInput
    /\ Commit("itemClick", dropdownManager.dropdownOptions[1][i + 1],
              dropdownManager.dropdownMatchData[1], <<>>)

\* Enter in the text box of a user-input option holding value: handleSubmit
UserInputSubmit(value) ==
    /\ dropdownManager.activeDropdown # <<>>
    /\ focus = "userInput"
    /\ calls < MaxCalls
    /\ IF trim(value) # <<>>
       THEN Commit("userInput",
                   [label |-> trim(value), hasOnSelect |-> TRUE,
                    display |-> trim(value), userInput |-> FALSE],
                   dropdownManager.dropdownMatchData[1], <<value>>)
       ELSE /\ lastEvent' = [Event("userInputBlank", text, <<>>, <<>>, <<dropdownManager>>)
                                 EXCEPT !.typed = <<value>>]
            /\ UNCHANGED <<commands, dropdownManager, dropdownDef, destroyed, placement,
                           isReady, frame,
                           scanVars,
                           currentBubble, hoverTimeout, focus, blurTimer>>

\* the onWordClick calls at the end of handleClick, made after the menu was
\* toggled: activeDropdownMatch is the manager's field as the toggle left it
onWordClickCalls(behavior, activeDropdownMatch, matchEl) ==
    IF ~(behavior = "dropdown" /\ activeDropdownMatch = matchEl) THEN 1 ELSE 0

\* click on the k-th match element: InteractionHandler.handleClick with a host
\* that has set onWordClick
MatchClick(k) ==
    /\ k \in 1..Len(matchElements(overlay))
    /\ LET matchEl == matchElements(overlay)[k]
       IN  dropdownManager' =
               IF matchEl.attrs[1].dataBehavior = "dropdown"
               THEN IF dropdownManager.activeDropdownMatch = k
                    THEN hideDropdown(dropdownManager)
                    ELSE showDropdown(dropdownManager, k, getMatchData(matchEl), dropdownDef)
               ELSE dropdownManager
    /\ focus' = IF matchElements(overlay)[k].attrs[1].dataBehavior = "dropdown"
                THEN focusAfterRemove(focus) ELSE focus
    /\ lastEvent' = [Event("matchClick", <<>>, <<>>,
                           <<getMatchData(matchElements(overlay)[k])>>, <<dropdownManager>>)
                         EXCEPT !.wordClicks =
                             onWordClickCalls(matchElements(overlay)[k].attrs[1].dataBehavior,
                                              dropdownManager'.activeDropdownMatch, k)]
    /\ UNCHANGED <<commands, dropdownDef, destroyed, placement, isReady, frame, scanVars,
                   currentBubble,
                   hoverTimeout,
                   blurTimer>>

\* mouseenter on the k-th match element: InteractionHandler.handleMouseEnter
MouseEnter(k) ==
    /\ k \in 1..Len(matchElements(overlay))
    /\ LET matchEl == matchElements(overlay)[k]
       IN  hoverTimeout' =
               IF matchEl.attrs[1].dataBehavior \in {"bubble", "hover"}
               THEN <<[matchData |-> getMatchData(matchEl), superseded |-> FALSE,
                       left |-> FALSE]>>
               ELSE hoverTimeout
    /\ lastEvent' = NoEvent
    /\ UNCHANGED <<commands, dropdownManager, dropdownDef, destroyed, placement, isReady,
                   frame, scanVars,
                   currentBubble,
                   focus, blurTimer>>

\* mouseleave on a match element: InteractionHandler.handleMouseLeave
MouseLeave ==
    /\ Len(matchElements(overlay)) > 0
    /\ hoverTimeout' = cancelHoverTimeout(hoverTimeout)
    /\ currentBubble' = bubbleAfterMouseLeave(currentBubble)
    /\ lastEvent' = Event("mouseLeave", <<>>, <<>>, <<>>, <<>>)
    /\ UNCHANGED <<commands, dropdownManager, dropdownDef, destroyed, placement, isReady,
                   frame, scanVars,
                   focus, blurTimer>>

\* the hover timer expires: the callback of handleMouseEnter's setTimeout
HoverTimer ==
    /\ hoverTimeout # <<>>
    /\ currentBubble' = showBubble(currentBubble, hoverTimeout[1].matchData)
    /\ hoverTimeout' = <<>>
    /\ lastEvent' = Event("hoverTimer", <<>>, <<>>, <<hoverTimeout[1]>>, <<>>)
    /\ UNCHANGED <<commands, dropdownManager, dropdownDef, destroyed, placement, isReady,
                   frame, scanVars,
                   focus, blurTimer>>

\* mouseleave on the bubble: the listener showBubble attached
BubbleMouseLeave ==
    /\ currentBubble # <<>>
    /\ currentBubble' = hideBubble(currentBubble)
    /\ lastEvent' = NoEvent
    /\ UNCHANGED <<commands, dropdownManager, dropdownDef, destroyed, placement, isReady,
                   frame, scanVars,
                   hoverTimeout,
                   focus, blurTimer>>

\* the filter field's 'input' event with the field holding value
FilterInput(value) ==
    /\ dropdownManager.activeDropdown # <<>>
    /\ dropdownManager.activeDropdown[1].hasFilter
    /\ focus = "filter"
    /\ dropdownManager' = filterInput(dropdownManager, value)
    /\ LET newFocus ==
               IF visibleItems(dropdownManager'.activeDropdown[1].items) = <<>>
               THEN focus
               ELSE focusAfterSelection(dropdownManager', focus, dropdownDef)
       IN  focus' = newFocus /\ blurTimer' = blurAfter(newFocus)
    /\ lastEvent' = Event("filter", <<>>, <<>>, <<>>, <<>>)
    /\ UNCHANGED <<commands, dropdownDef, destroyed, placement, isReady, frame, scanVars,
                   currentBubble,
                   hoverTimeout>>

\* the user clicks into the filter field: the dropdown's mousedown listener
\* lets it take the focus, the click stays inside the dropdown
FocusFilter ==
    /\ dropdownManager.activeDropdown # <<>>
    /\ dropdownManager.activeDropdown[1].hasFilter
    /\ focus # "filter"
    /\ focus' = "filter"
    /\ blurTimer' = blurAfter("filter")
    /\ lastEvent' = NoEvent
    /\ UNCHANGED <<commands, dropdownManager, dropdownDef, destroyed, placement, isReady,
                   frame, scanVars,
                   currentBubble,
                   hoverTimeout>>

\* click on a displayed user-input container: its click listener focuses the text box
FocusUserInput ==
    /\ dropdownManager.activeDropdown # <<>>
    /\ focus # "userInput"
    /\ \E k \in 1..Len(dropdownManager.activeDropdown[1].items) :
           /\ dropdownManager.activeDropdown[1].items[k].userInput
           /\ dropdownManager.activeDropdown[1].items[k].display # "none"
    /\ focus' = "userInput"
    /\ blurTimer' = blurAfter("userInput")
    /\ lastEvent' = NoEvent
    /\ UNCHANGED <<commands, dropdownManager, dropdownDef, destroyed, placement, isReady,
                   frame, scanVars,
                   currentBubble,
                   hoverTimeout>>

\* the focus leaves the textarea for something outside the dropdown
BlurAway ==
    /\ focus = "textarea"
    /\ focus' = "other"
    /\ blurTimer' = TRUE
    /\ lastEvent' = NoEvent
    /\ UNCHANGED <<commands, dropdownManager, dropdownDef, destroyed, placement, isReady,
                   frame, scanVars,
                   currentBubble,
                   hoverTimeout>>

\* the focus moves to the textarea without a click (Tab, textarea.focus())
FocusTextarea ==
    /\ focus # "textarea"
    /\ focus' = "textarea"
    /\ lastEvent' = NoEvent
    /\ UNCHANGED <<commands, dropdownManager, dropdownDef, destroyed, placement, isReady,
                   frame, scanVars,
                   currentBubble,
                   hoverTimeout, blurTimer>>

\* the timer of the textarea's blur listener expires
BlurTimer ==
    /\ blurTimer
    /\ blurTimer' = FALSE
    /\ dropdownManager' = IF focus \in InsideDropdown THEN dropdownManager
                          ELSE hideDropdown(dropdownManager)
    /\ lastEvent' = Event("blurTimer", <<>>, <<>>, <<>>, <<>>)
    /\ UNCHANGED <<commands, dropdownDef, destroyed, placement, isReady, frame, scanVars,
                   currentBubble,
                   hoverTimeout, focus>>

\* a click outside the dropdown, on the textarea or elsewhere, reaches the
\* document: closeDropdownHandler
OutsideClick(target) ==
    /\ dropdownManager.activeDropdown # <<>>
    /\ dropdownManager' = hideDropdown(dropdownManager)
    /\ focus' = target
    /\ blurTimer' = blurAfter(target)
    /\ lastEvent' = Event("outsideClick", <<>>, <<>>, <<>>, <<>>)
    /\ UNCHANGED <<commands, dropdownDef, destroyed, placement, isReady, frame, scanVars,
                   currentBubble,
                   hoverTimeout>>

Next ==
    \/ \E c \in Alphabet : Input(c)
    \/ Backspace
    \/ \E value \in ExampleTexts : SetValue(value)
    \/ \E cfg \in Configs : UpdateCommandMap(cfg)
    \/ \E direction \in {1, -1} : KeyArrow(direction)
    \/ KeyEnter
    \/ KeyEscape
    \/ \E i \in 0..MaxItems - 1 : ItemClick(i)
    \/ \E value \in UserValues : UserInputSubmit(value)
    \/ \E k \in 1..MaxLen : MatchClick(k)
    \/ FocusTextarea
    \/ BlurTimer

Spec == Init /\ [][Next]_vars

\* ------------------------------------------------------------ gestures

\* Every gesture, over a few texts under a configuration whose literal rule
\* has a filterable menu and whose regex rule has a message.
InitSession == InitWith(SessionConfigs)

NextSession ==
    \/ \E c \in SessionAlphabet : Input(c)
    \/ Backspace
    \/ \E value \in SessionTexts : SetValue(value)
    \/ \E cfg \in SessionConfigs : UpdateCommandMap(cfg)
    \/ \E direction \in {1, -1} : KeyArrow(direction)
    \/ KeyEnter
    \/ KeyEscape
    \/ \E i \in 0..MaxItems - 1 : ItemClick(i)
    \/ \E value \in UserValues : UserInputSubmit(value)
    \/ \E k \in 1..MaxLen : MatchClick(k)
    \/ \E k \in 1..MaxLen : MouseEnter(k)
    \/ MouseLeave
    \/ HoverTimer
    \/ BubbleMouseLeave
    \/ \E value \in FilterValues : FilterInput(value)
    \/ FocusFilter
    \/ FocusUserInput
    \/ BlurAway
    \/ FocusTextarea
    \/ BlurTimer
    \/ \E target \in {"textarea", "other"} : OutsideClick(target)

SpecSession == InitSession /\ [][NextSession]_vars

\* ------------------------------------------------------------ pointer gestures on matches

InitAffordance == InitWith(AffordanceConfigs)

NextAffordance ==
    \/ \E value \in AffordanceTexts : SetValue(value)
    \/ \E k \in 1..MaxLen : MatchClick(k)
    \/ \E k \in 1..MaxLen : MouseEnter(k)
    \/ MouseLeave
    \/ HoverTimer
    \/ BubbleMouseLeave
    \/ KeyEscape

SpecAffordance == InitAffordance /\ [][NextAffordance]_vars

\* ------------------------------------------------------------ text assigned by the page

\* the values the page assigns to the textarea
AssignedTexts == {<<"e", "e">>, <<"t">>, <<>>}

\* a script of the page assigns textarea.value: no 'input' event is dispatched,
\* so no listener of the instance runs
AssignValue(value) ==
    /\ text # value
    /\ text' = value
    /\ lastEvent' = NoEvent
    /\ UNCHANGED <<commands, matches, overlay, dropdownManager, dropdownDef, destroyed,
                   placement, isReady,
                   frame, validationState, lastUpdate, calls, rendered, currentBubble,
                   hoverTimeout, focus, blurTimer>>

NextAssigned ==
    \/ \E value \in SessionTexts : SetValue(value)
    \/ \E value \in AssignedTexts : AssignValue(value)
    \/ \E k \in 1..MaxLen : MatchClick(k)
    \/ \E direction \in {1, -1} : KeyArrow(direction)
    \/ KeyEnter
    \/ KeyEscape
    \/ \E i \in 0..MaxItems - 1 : ItemClick(i)

SpecAssigned == InitSession /\ [][NextAssigned]_vars

\* ------------------------------------------------------------ direct validation updates

\* a match object as a host hands it to update(): the intent is a top-level
\* property, as on the objects getMatchData builds
HostMatch(col, messageState, blockSubmit) ==
    [text |-> <<"t">>, line |-> 0, col |-> col,
     intent |-> [handler |-> [messageState |-> messageState,
                              blockSubmit |-> blockSubmit]]]

HostMatches ==
    {HostMatch(0, "error", FALSE), HostMatch(1, "error", FALSE),
     HostMatch(0, "warning", TRUE), HostMatch(0, "info", FALSE)}

RECURSIVE SeqsUpTo(_, _)
SeqsUpTo(S, n) ==
    IF n = 0 THEN {<<>>}
    ELSE SeqsUpTo(S, n - 1)
         \cup {Append(q, x) : q \in {r \in SeqsUpTo(S, n - 1) : Len(r) = n - 1}, x \in S}

\* validationStateManager.update(ms), called on the manager itself
DirectUpdate(ms) ==
    /\ calls < MaxCalls
    /\ validationState' = validationUpdate(validationState, ms)
    /\ lastUpdate' = [arg |-> ms, before |-> validationState,
                      notified |-> stateChanged(validationState, categorize(ms)),
                      reported |-> reportedAfter(lastUpdate.reported, validationState, ms)]
    /\ calls' = IF lastUpdate'.notified THEN calls + 1 ELSE calls
    /\ lastEvent' = NoEvent
    /\ UNCHANGED <<commands, text, matches, overlay, dropdownManager, dropdownDef, destroyed,
                   placement,
                   isReady, frame,
                   rendered, currentBubble, hoverTimeout, focus, blurTimer>>

\* validationStateManager.reset()
Reset == DirectUpdate(<<>>)

InitValidation ==
    /\ dropdownDef = 2
    /\ destroyed = <<>>
    /\ placement = <<>>
    /\ commands = parseCommandMap(CfgEmpty)
    /\ text = <<>>
    /\ matches = scan(text, commands)
    /\ overlay = renderOverlay(text, matches)
    /\ dropdownManager = NewDropdownManager
    /\ validationState = EmptyValidationState
    /\ lastUpdate = [arg |-> <<>>, before |-> EmptyValidationState, notified |-> FALSE,
                     reported |-> EmptyValidationState]
    /\ calls = 0
    /\ lastEvent = NoEvent
    /\ rendered = dropdownManager
    /\ currentBubble = <<>>
    /\ hoverTimeout = <<>>
    /\ focus = "textarea"
    /\ blurTimer = FALSE
    /\ isReady = TRUE
    /\ frame = <<>>

NextValidation ==
    \/ \E ms \in SeqsUpTo(HostMatches, MaxMatches) : DirectUpdate(ms)
    \/ Reset

SpecValidation == InitValidation /\ [][NextValidation]_vars

\* ------------------------------------------------------------ the loops of findMatches

\* new CommandScanner() and setCommandMap(CfgLoops); no findMatches call yet
InitScanner ==
    /\ dropdownDef = 2
    /\ destroyed = <<>>
    /\ placement = <<>>
    /\ commands = parseCommandMap(CfgLoops)
    /\ text = <<>>
    /\ matches = <<>>
    /\ overlay = <<>>
    /\ dropdownManager = NewDropdownManager
    /\ rendered = dropdownManager
    /\ validationState = EmptyValidationState
    /\ lastUpdate = [arg |-> <<>>, before |-> EmptyValidationState, notified |-> FALSE,
                     reported |-> EmptyValidationState]
    /\ calls = 0
    /\ lastEvent = NoEvent
    /\ currentBubble = <<>>
    /\ hoverTimeout = <<>>
    /\ focus = "textarea"
    /\ blurTimer = FALSE
    /\ isReady = FALSE
    /\ frame = <<>>

\* findMatches(line, command, lineIndex) is entered: matches is empty; the
\* regex branch compiles the source, and a source that does not compile takes
\* the call through the catch block to its return; position is regex.lastIndex
\* or startIndex, previous its value before the last iteration
CallFindMatches(line, command) ==
    /\ IF frame = <<>> THEN TRUE ELSE frame[1].pc = "returned"
    /\ frame' = <<[line |-> line, command |-> command, matches |-> <<>>,
                   position |-> 0, previous |-> 0, iterations |-> 0,
                   pc |-> IF command.matchType = "regex" /\ throwsSyntaxError(command.match)
                          THEN "returned" ELSE "loop"]>>
    /\ UNCHANGED <<commands, text, matches, overlay, dropdownManager, dropdownDef, destroyed,
                   placement,
                   validationState, lastUpdate, calls, lastEvent, rendered,
                   currentBubble, hoverTimeout, focus, blurTimer, isReady>>

\* one iteration of while ((match = regex.exec(line)) !== null)
regexIteration(f) ==
    LET m == exec(f.line, RegExpOf(f.command.match), f.position)
    IN  IF m[1] = -1 THEN [f EXCEPT !.pc = "returned"]
        ELSE [f EXCEPT !.matches = Append(@, [text |-> substring(f.line, m[1], m[2]),
                                              line |-> 0, col |-> m[1],
                                              length |-> m[2] - m[1],
                                              command |-> f.command]),
                       !.position = m[2]]

\* one iteration of while (true) over searchText.indexOf(pattern, startIndex)
stringIteration(f) ==
    LET searchText == IF f.command.caseSensitive THEN f.line ELSE toLowerCase(f.line)
        pattern == IF f.command.caseSensitive THEN f.command.match
                   ELSE toLowerCase(f.command.match)
        index == indexOf(searchText, pattern, f.position)
    IN  IF index = -1 THEN [f EXCEPT !.pc = "returned"]
        ELSE IF f.command.wholeWord /\ ~isWholeWordMatch(f.line, index, Len(pattern))
        THEN [f EXCEPT !.position = index + 1]
        ELSE [f EXCEPT !.matches = Append(@, [text |-> substring(f.line, index,
                                                                 index + Len(pattern)),
                                              line |-> 0, col |-> index,
                                              length |-> Len(pattern),
                                              command |-> f.command]),
                       !.position = index + Len(pattern)]

\* the call in progress runs one more iteration of its loop
LoopIteration ==
    /\ frame # <<>>
    /\ frame[1].pc = "loop"
    /\ frame[1].iterations < MaxIterations
    /\ LET f == [frame[1] EXCEPT !.previous = frame[1].position,
                                  !.iterations = @ + 1]
       IN  frame' = <<IF f.command.matchType = "regex" THEN regexIteration(f)
                      ELSE stringIteration(f)>>
    /\ UNCHANGED <<commands, text, matches, overlay, dropdownManager, dropdownDef, destroyed,
                   placement,
                   validationState, lastUpdate, calls, lastEvent, rendered,
                   currentBubble, hoverTimeout, focus, blurTimer, isReady>>

NextScanner ==
    \/ \E line \in SeqsUpTo(ScannerAlphabet, MaxLen) :
          \E k \in 1..Len(commands) : CallFindMatches(line, commands[k])
    \/ LoopIteration

SpecScanner == InitScanner /\ [][NextScanner]_vars

\* ------------------------------------------------------------ loading the trigger map

\* init() with autoLoadCommandMap suspended at await this.loadCommandMap(): the
\* listeners are attached, the scanner has no commands, nothing is rendered yet
InitLoad ==
    /\ dropdownDef \in {1, 2}
    /\ destroyed = <<>>
    /\ placement = <<>>
    /\ commands = <<>>
    /\ text = <<>>
    /\ matches = <<>>
    /\ overlay = <<>>
    /\ dropdownManager = NewDropdownManager
    /\ rendered = dropdownManager
    /\ validationState = EmptyValidationState
    /\ lastUpdate = [arg |-> <<>>, before |-> EmptyValidationState, notified |-> FALSE,
                     reported |-> EmptyValidationState]
    /\ calls = 0
    /\ lastEvent = NoEvent
    /\ currentBubble = <<>>
    /\ hoverTimeout = <<>>
    /\ focus = "textarea"
    /\ blurTimer = FALSE
    /\ isReady = FALSE
    /\ frame = <<>>

\* the fetch delivers a document: loadCommandMap calls updateCommandMap(data),
\* then init() goes on with the initial render and sets isReady
FetchResolves(cfg) ==
    /\ ~isReady
    /\ commands' = parseCommandMap(cfg)
    /\ UNCHANGED <<text, dropdownDef, destroyed, placement, frame>>
    /\ Render(FALSE)
    /\ isReady' = TRUE
    /\ lastEvent' = Event("fetchResolved", <<>>, <<>>, <<>>, <<>>)

\* the fetch fails (network error, status not ok, unreadable body): the catch
\* block logs, then init() goes on with the initial render and sets isReady
FetchFails ==
    /\ ~isReady
    /\ UNCHANGED <<commands, text, dropdownDef, destroyed, placement, frame>>
    /\ Render(FALSE)
    /\ isReady' = TRUE
    /\ lastEvent' = Event("fetchFailed", <<>>, <<>>, <<>>, <<>>)

NextLoad ==
    \/ \E c \in Alphabet : Input(c)
    \/ Backspace
    \/ \E cfg \in LoadConfigs : UpdateCommandMap(cfg)
    \/ \E cfg \in LoadConfigs : FetchResolves(cfg)
    \/ FetchFails

SpecLoad == InitLoad /\ [][NextLoad]_vars

\* ------------------------------------------------------------ properties

TextLines == split(text)

\* the candidates findMatches returns for rule i (1-based) on line L (0-based)
CandidatesOf(L, i) ==
    LET c == findMatches(TextLines[L + 1], commands[i], L)
    IN  {c[k] : k \in 1..Len(c)}

Retained(c) == \E k \in 1..Len(matches) : matches[k] = c

Overlap(a, b) == a.col < b.col + b.length /\ b.col < a.col + a.length

RuleIndex(m) == CHOOSE i \in 1..Len(commands) : commands[i] = m.command

LineNumbers == 0..Len(TextLines) - 1

RunTexts(lineEl) == [k \in 1..Len(lineEl.runs) |-> lineEl.runs[k].text]

\* C1: the runs the renderer emits for each line of the text, fed the scan of
\* that text, concatenate in emitted order to exactly that line; an empty line
\* is emitted as the placeholder alone, and only an empty line holds it.
RoundTrip ==
    /\ Len(overlay) = Len(TextLines)
    /\ \A i \in 1..Len(TextLines) :
           /\ Concat(RunTexts(overlay[i])) = TextLines[i]
           /\ TextLines[i] = <<>> => overlay[i].runs = <<>> /\ overlay[i].nbsp
           /\ overlay[i].nbsp => TextLines[i] = <<>>

\* a text of three lines: a plain run after a match, and an empty line in between
RoundTripReached ==
    /\ text = TxtLines
    /\ Len(overlay) = 3
    /\ overlay[2].nbsp
    /\ Len(overlay[3].runs) >= 2
    /\ \E k \in 1..Len(overlay[3].runs) : overlay[3].runs[k].kind = "match"
    /\ \E k \in 1..Len(overlay[3].runs) : overlay[3].runs[k].kind = "plain"

\* C2: the matches scan returns are in increasing line order and, within a line,
\* are pairwise disjoint half-open ranges [col, col+length) in increasing
\* start-column order.
MatchesDisjointAndSorted ==
    \A i, j \in 1..Len(matches) :
        i < j =>
            \/ matches[i].line < matches[j].line
            \/ /\ matches[i].line = matches[j].line
               /\ matches[i].col + matches[i].length <= matches[j].col

\* matches on two lines, with a candidate that overlapped an accepted match
OverlappingCandidatesReached ==
    /\ Len(matches) >= 3
    /\ \E i, j \in 1..Len(matches) : matches[i].line # matches[j].line
    /\ \E L \in LineNumbers : \E i \in 1..Len(commands) :
           \E c \in CandidatesOf(L, i) : ~Retained(c)

\* C3, as stated: of two overlapping candidates of different rules, exactly the
\* one of the rule that comes first in the compiled order is retained.
EarlierRuleAlwaysRetained ==
    \A L \in LineNumbers : \A i, j \in 1..Len(commands) :
        i < j =>
            \A a \in CandidatesOf(L, i) : \A b \in CandidatesOf(L, j) :
                Overlap(a, b) => Retained(a) /\ ~Retained(b)

\* C3, amended: of two overlapping candidates of different rules at most one is
\* retained, and a candidate is dropped only for overlapping a match retained
\* from a rule that comes before its own in the compiled order; so the later
\* rule's candidate survives only when the earlier rule's candidate was itself
\* dropped for such an overlap.
FirstAcceptedWins ==
    \A L \in LineNumbers : \A i \in 1..Len(commands) :
        \A a \in CandidatesOf(L, i) :
            /\ \A j \in 1..Len(commands) : \A b \in CandidatesOf(L, j) :
                   i # j /\ Overlap(a, b) => ~(Retained(a) /\ Retained(b))
            /\ ~Retained(a) =>
                   \E k \in 1..Len(matches) :
                       /\ matches[k].line = L
                       /\ Overlap(matches[k], a)
                       /\ RuleIndex(matches[k]) < i

\* two overlapping candidates of which the later rule's one is retained
LaterRuleRetainedReached ==
    \E L \in LineNumbers : \E i, j \in 1..Len(commands) :
        /\ i < j
        /\ \E a \in CandidatesOf(L, i) : \E b \in CandidatesOf(L, j) :
               Overlap(a, b) /\ ~Retained(a) /\ Retained(b)

LeftNeighbour(m) == charAt(TextLines[m.line + 1], m.col - 1)

RightNeighbour(m) == charAt(TextLines[m.line + 1], m.col + m.length)

IsLiteral(m) == m.command.matchType = "string"

\* C5, as stated: a literal rule's match is an occurrence of its phrase up to
\* letter case, with no word character directly before or after it; "test"
\* yields nothing on "testing" and one match on "a test"; a regex rule's match
\* is the text at its columns exactly and may lie inside a word.
LiteralMatchesPhraseAsWholeWord ==
    /\ \A k \in 1..Len(matches) :
           LET m == matches[k]
           IN  IF IsLiteral(m)
               THEN /\ toLowerCase(m.text) = toLowerCase(m.command.match)
                    /\ m.col > 0 => ~isWordChar(LeftNeighbour(m))
                    /\ m.col + m.length < Len(TextLines[m.line + 1])
                           => ~isWordChar(RightNeighbour(m))
               ELSE m.text = substring(TextLines[m.line + 1], m.col, m.col + m.length)
    /\ commands = parseCommandMap(CfgTest) /\ text = TxtTesting => matches = <<>>
    /\ commands = parseCommandMap(CfgTest) /\ text = TxtATest => Len(matches) = 1
    /\ commands = parseCommandMap(CfgTest) /\ text = TxtUpperTest => Len(matches) = 1

Tuple(state) ==
    <<state.hasBlockingError, Len(state.errors), Len(state.warnings), Len(state.info)>>

\* C7: an update invokes onValidationChange exactly when the tuple
\* (hasBlockingError, errors, warnings, info) computed from its argument
\* differs from the tuple of the stored, last reported, summary; the stored
\* summary is replaced exactly then.
NotifiedIffTupleDiffers ==
    [][/\ lastUpdate'.before = validationState
       /\ IF Tuple(categorize(lastUpdate'.arg)) # Tuple(validationState)
          THEN /\ lastUpdate'.notified
               /\ calls' = calls + 1
               /\ validationState' = categorize(lastUpdate'.arg)
          ELSE /\ ~lastUpdate'.notified
               /\ calls' = calls
               /\ validationState' = validationState]_vars

\* the second of two updates with one error each, the errors being different
\* match objects: the host has been called once in total
SameCountNotNotifiedReached ==
    /\ lastUpdate.before.errors = <<HostMatch(0, "error", FALSE)>>
    /\ lastUpdate.arg = <<HostMatch(1, "error", FALSE)>>
    /\ ~lastUpdate.notified
    /\ calls = 1

RuleBlocks(m) == m.command.intent.handler.blockSubmit = TRUE

RuleSeverity(m) == m.command.messageState

\* C8, as stated: after a render the summary computed from the scan's match
\* list has hasBlockingError exactly when a match's rule has block-submit, and
\* holds every match in the list of its rule's severity; the e-mail example
\* gives one error, hasBlockingError and one host notification.
SummaryFollowsRules ==
    LET summary == categorize(matches)
    IN  /\ summary.hasBlockingError = (\E k \in 1..Len(matches) : RuleBlocks(matches[k]))
        /\ summary.errors = SelectSeq(matches, LAMBDA m : RuleSeverity(m) = "error")
        /\ summary.warnings = SelectSeq(matches, LAMBDA m : RuleSeverity(m) = "warning")
        /\ summary.info = SelectSeq(matches, LAMBDA m : RuleSeverity(m) = "info")
        /\ commands = parseCommandMap(CfgEmail) /\ text = TxtEmail =>
               /\ Len(validationState.errors) = 1
               /\ validationState.hasBlockingError
               /\ calls = 1

CommitKinds == {"enter", "itemClick", "userInput"}

Committed == lastEvent.kind \in CommitKinds

HasDisplay == lastEvent.option[1].hasOnSelect /\ lastEvent.option[1].display # <<>>

\* the text before the commit with line L rebuilt around the anchor
Rebuilt(inserted) ==
    LET md == lastEvent.matchData[1]
        lines == split(lastEvent.before)
        line == lines[md.line + 1]
    IN  join([lines EXCEPT ![md.line + 1] =
                 substring(line, 0, md.col) \o inserted
                 \o substring(line, md.col + Len(md.text), Len(line))])

AppendForm ==
    Rebuilt(lastEvent.matchData[1].text \o <<"/">> \o lastEvent.option[1].display)

ReplaceForm == Rebuilt(lastEvent.option[1].display)

\* C9: under the second DropdownManager definition, committing an option with
\* display text D on a menu anchored at text t, line L, column c leaves line L
\* as line[0..c) + t + "/" + D + line[c+len(t)..] and every other line as it
\* was; Blackrock on "ping @client now" gives "ping @client/Blackrock now".
AppendCommit ==
    /\ dropdownDef = 2 /\ Committed /\ HasDisplay => text = AppendForm
    /\ dropdownDef = 2 /\ Committed /\ lastEvent.before = TxtPing
       /\ lastEvent.option[1].display = Blackrock
           => text = TxtPingDone

\* Blackrock committed on "ping @client now" under the second definition
AppendCommitReached ==
    /\ dropdownDef = 2
    /\ Committed
    /\ lastEvent.before = TxtPing
    /\ lastEvent.option[1].display = Blackrock
    /\ text = TxtPingDone

\* C10, as stated: committing a plain option replaces exactly the anchor's span
\* by the display text; only a user-input commit uses the "/" form.
PlainCommitReplaces ==
    /\ lastEvent.kind \in {"enter", "itemClick"} /\ HasDisplay => text = ReplaceForm
    /\ lastEvent.kind = "userInput" /\ HasDisplay => text = AppendForm

\* C10, amended: which form a commit takes depends on the DropdownManager
\* definition loaded, not on the option's shape: under the first definition a
\* plain option replaces exactly the anchor's span (Blackrock on
\* "ping @client now" gives "ping Blackrock now") and no user-input commit
\* exists; under the second definition plain and user-input commits alike
\* take the "/" form.
CommitFormFollowsDefinition ==
    /\ dropdownDef = 1 /\ Committed /\ HasDisplay =>
           /\ lastEvent.kind # "userInput"
           /\ text = ReplaceForm
           /\ lastEvent.before = TxtPing /\ lastEvent.option[1].display = Blackrock
                  => text = TxtPingReplaced
    /\ dropdownDef = 2 /\ lastEvent.kind \in {"enter", "itemClick"} /\ HasDisplay =>
           text = AppendForm /\ text # ReplaceForm
    /\ dropdownDef = 2 /\ lastEvent.kind = "userInput" /\ HasDisplay =>
           text = AppendForm

\* Blackrock committed on "ping @client now" under the first definition
ReplaceCommitReached ==
    /\ dropdownDef = 1
    /\ lastEvent.kind \in {"enter", "itemClick"}
    /\ lastEvent.before = TxtPing
    /\ lastEvent.option[1].display = Blackrock
    /\ text = TxtPingReplaced

\* ---- the session: menus, tooltips, focus

MenuOpen == dropdownManager.activeDropdown # <<>>

TooltipOpen == currentBubble # <<>>

\* the match elements of the overlay whose affordance is a menu
MenuMatches ==
    {k \in 1..Len(matchElements(overlay)) :
        matchElements(overlay)[k].attrs[1].dataBehavior = "dropdown"}

\* C11: after a commit that changes the text (Enter, a click on an item, the
\* submission of a user-input box) the match list and the overlay are those of
\* the new text, and neither a menu nor a tooltip is open, whatever menu
\* matches the new text has.
CommitRescansAndCloses ==
    Committed /\ text # lastEvent.before =>
        /\ matches = scan(text, commands)
        /\ overlay = renderOverlay(text, matches)
        /\ ~MenuOpen
        /\ ~TooltipOpen

\* a commit changed the text and the new text still has a menu match, for
\* which the render inside the commit opened a menu
CommitWithMenuMatchLeftReached ==
    /\ Committed
    /\ text # lastEvent.before
    /\ MenuMatches # {}
    /\ rendered.activeDropdown # <<>>
    /\ ~MenuOpen

\* a menu as showDropdown() leaves it: first item selected, filter empty,
\* every item displayed
FreshMenu(dm) ==
    /\ dm.activeDropdown # <<>>
    /\ dm.selectedDropdownIndex = 0
    /\ dm.activeDropdown[1].filterValue = <<>>
    /\ \A k \in 1..Len(dm.activeDropdown[1].items) :
           dm.activeDropdown[1].items[k].display # "none"

EditWithMenuOpen == lastEvent.kind = "edit" /\ lastEvent.wasActive

\* C12, as stated: after a text edit (typing, deletion, setValue) made while a
\* menu is open, no menu is open.
EditClosesMenu == EditWithMenuOpen => ~MenuOpen

\* C12, amended: a text edit made while a menu is open discards that menu and
\* any tooltip, and the render it triggers opens a fresh menu exactly when the
\* new text has a menu match, anchored at such a match; no menu is open only
\* when the new text has no menu match.
EditReopensMenu ==
    EditWithMenuOpen =>
        /\ ~TooltipOpen
        /\ MenuOpen <=> MenuMatches # {}
        /\ MenuOpen => /\ FreshMenu(dropdownManager)
                       /\ dropdownManager.activeDropdownMatch \in MenuMatches

\* a character was typed after "te" while its menu was open, and a menu is open
EditWithMenuOpenReached ==
    /\ EditWithMenuOpen
    /\ text = SrcTe \o <<" ">>
    /\ MenuOpen

\* C13: at most one affordance is active: a tooltip and a menu are never open
\* together, and the hover timer opens a tooltip only if no menu is open when
\* it expires.
AtMostOneAffordance ==
    /\ ~(MenuOpen /\ TooltipOpen)
    /\ lastEvent.kind = "hoverTimer" /\ lastEvent.wasActive => ~TooltipOpen

\* the items of the dropdown that was active when the last commit started
ItemsBefore == lastEvent.dropdown[1].activeDropdown[1].items

\* C14: when the filter matches no option, Enter is a no-op: no option is
\* committed, the text is unchanged and the menu stays open.
EnterWithNothingVisibleIsNoOp ==
    ~(lastEvent.kind = "enter" /\ visibleItems(ItemsBefore) = <<>>)

\* the last handler changed the text or replaced it
TextChange == lastEvent.kind = "edit" \/ (Committed /\ text # lastEvent.before)

\* C15: every text change cancels a pending hover timer: after it no timer is
\* pending, the timer that expires is never one started before a text change,
\* and an open tooltip belongs to a match element of the current overlay.
TextChangeCancelsHoverTimer ==
    /\ TextChange => hoverTimeout = <<>> /\ ~TooltipOpen
    /\ lastEvent.kind = "hoverTimer" => ~lastEvent.matchData[1].superseded
    /\ TooltipOpen =>
           \E k \in 1..Len(matchElements(overlay)) :
               getMatchData(matchElements(overlay)[k]) = currentBubble[1].matchData

\* the text changed while a hover timer was pending
TextChangeWithTimerPendingReached ==
    /\ TextChange
    /\ lastEvent.wasPending
    /\ hoverTimeout = <<>>

\* the displayed items of the active dropdown, as 0-based indices
VisibleNow == visibleItems(dropdownManager.activeDropdown[1].items)

SeqRange(q) == {q[k] : k \in 1..Len(q)}

\* the element of q that follows x, direction places on, cyclically
CyclicNext(q, x, direction) ==
    LET k == CHOOSE j \in 1..Len(q) : q[j] = x
    IN  q[((k - 1 + direction + Len(q)) % Len(q)) + 1]

\* moveDropdownSelection(1), n times over
RECURSIVE ArrowDownTimes(_, _)
ArrowDownTimes(dm, n) ==
    IF n = 0 THEN dm ELSE ArrowDownTimes(moveDropdownSelection(dm, 1), n - 1)

\* an arrow key that reaches moveDropdownSelection (the document's handler or
\* the handler of a user-input box) while some item is displayed
ArrowMoves(direction) ==
    /\ KeyArrow(direction)
    /\ focus # "filter"
    /\ VisibleNow # <<>>

\* C16: ArrowDown and ArrowUp move the highlight among the displayed options
\* only, wrapping at both ends: whenever some option is displayed the
\* highlighted one is displayed, an arrow key moves it to the next or previous
\* displayed option cyclically and hides or shows nothing, and ArrowDown
\* pressed as many times as there are displayed options returns to the same
\* option.
ArrowsCycleThroughVisible ==
    /\ [](MenuOpen /\ VisibleNow # <<>> =>
            /\ dropdownManager.selectedDropdownIndex \in SeqRange(VisibleNow)
            /\ ArrowDownTimes(dropdownManager, Len(VisibleNow)).selectedDropdownIndex
                   = dropdownManager.selectedDropdownIndex)
    /\ [][\A direction \in {1, -1} :
             ArrowMoves(direction) =>
                 /\ dropdownManager'.activeDropdown = dropdownManager.activeDropdown
                 /\ dropdownManager'.selectedDropdownIndex =
                        CyclicNext(VisibleNow, dropdownManager.selectedDropdownIndex,
                                   direction)]_vars

\* with an option hidden by the filter and two displayed, the highlight has
\* been moved off the first displayed option
ArrowMovedAmongVisibleReached ==
    /\ MenuOpen
    /\ Len(VisibleNow) >= 2
    /\ Len(VisibleNow) < Len(dropdownManager.activeDropdown[1].items)
    /\ dropdownManager.selectedDropdownIndex = VisibleNow[Len(VisibleNow)]

\* option k (1-based) of the active dropdown is displayed
Displayed(k) == dropdownManager.activeDropdown[1].items[k].display # "none"

\* the label of option k contains the filter text, letter case aside
LabelContainsFilter(k) ==
    includes(toLowerCase(dropdownManager.dropdownOptions[1][k].label),
             toLowerCase(dropdownManager.activeDropdown[1].filterValue))

Filtered == lastEvent.kind = "filter" /\ MenuOpen

\* C17, as stated: after the filter text changes, exactly the options whose
\* label contains it (case-insensitively) are displayed, and the highlight is
\* on the first displayed option.
FilterShowsLabelMatches ==
    Filtered =>
        /\ \A k \in 1..Len(dropdownManager.dropdownOptions[1]) :
               Displayed(k) <=> LabelContainsFilter(k)
        /\ VisibleNow # <<>> => dropdownManager.selectedDropdownIndex = VisibleNow[1]

\* C17, amended: the filter compares the text of the rendered item. An
\* ordinary option is displayed iff its label contains the filter text
\* (case-insensitively); a user-input option that is rendered as a text box
\* (second DropdownManager definition) has no text and is displayed only under
\* the empty filter, whatever its label. The highlight moves to the first
\* displayed option if there is one.
FilterShowsItemTextMatches ==
    Filtered =>
        /\ \A k \in 1..Len(dropdownManager.dropdownOptions[1]) :
               Displayed(k) <=>
                   IF dropdownDef = 2 /\ dropdownManager.dropdownOptions[1][k].userInput
                   THEN dropdownManager.activeDropdown[1].filterValue = <<>>
                   ELSE LabelContainsFilter(k)
        /\ VisibleNow # <<>> => dropdownManager.selectedDropdownIndex = VisibleNow[1]

\* the filter "E" displays the options e and Te and hides T
FilterCaseInsensitiveReached ==
    /\ Filtered
    /\ dropdownManager.activeDropdown[1].filterValue = <<"E">>
    /\ Displayed(3) /\ Displayed(4) /\ ~Displayed(1)
    /\ dropdownManager.selectedDropdownIndex = VisibleNow[1]

MenuMatchClicked ==
    /\ lastEvent.kind = "matchClick"
    /\ lastEvent.matchData[1].command.behavior = "dropdown"

\* the menu as a click leaves it open: anchored at the clicked match, built
\* from its rule's options, first item highlighted, filter empty
OpenAtClickedMatch ==
    /\ FreshMenu(dropdownManager)
    /\ dropdownManager.dropdownMatchData = lastEvent.matchData
    /\ dropdownManager.dropdownOptions = <<lastEvent.matchData[1].intent.handler.options>>
    /\ dropdownManager.activeDropdownMatch \in MenuMatches
    /\ getMatchData(matchElements(overlay)[dropdownManager.activeDropdownMatch])
           = lastEvent.matchData[1]

\* the clicked match was the anchor of the menu that was open
ClickedTheAnchor ==
    /\ lastEvent.wasActive
    /\ lastEvent.dropdown[1].dropdownMatchData = lastEvent.matchData

\* C19, as stated: a click on a menu match leaves the menu open at that match
\* with the first option highlighted and an empty filter, whatever was open.
ClickOpensMenu == MenuMatchClicked => OpenAtClickedMatch

\* C19, amended: a click on a menu match toggles: if the menu anchored at that
\* match was open the click closes it; otherwise (nothing open, or a menu
\* anchored at another match) it leaves the menu open at the clicked match
\* with the first option highlighted, an empty filter and the rule's options.
ClickTogglesMenu ==
    MenuMatchClicked =>
        IF ClickedTheAnchor THEN ~MenuOpen ELSE OpenAtClickedMatch

\* a click moved the menu from another match, where the highlight had been
\* moved off the first option, to the clicked match
ClickMovedMenuReached ==
    /\ MenuMatchClicked
    /\ lastEvent.wasActive
    /\ ~ClickedTheAnchor
    /\ lastEvent.dropdown[1].selectedDropdownIndex # 0
    /\ OpenAtClickedMatch

\* C20: when a render returns, if the overlay has at least one menu match a
\* single menu is open, anchored at one of them and built from its rule, with
\* the first option highlighted and an empty filter; if it has none, no menu
\* is open.
RenderAutoOpensMenu ==
    /\ MenuMatches # {} =>
           /\ FreshMenu(rendered)
           /\ rendered.activeDropdownMatch \in MenuMatches
           /\ rendered.dropdownMatchData =
                  <<getMatchData(matchElements(overlay)[rendered.activeDropdownMatch])>>
           /\ rendered.dropdownOptions =
                  <<rendered.dropdownMatchData[1].intent.handler.options>>
    /\ MenuMatches = {} => rendered.activeDropdown = <<>>

\* a text with a menu match and a tooltip match has been rendered
RenderWithMenuMatchesReached ==
    /\ lastEvent.kind = "edit"
    /\ Cardinality(MenuMatches) >= 1
    /\ Len(matchElements(overlay)) > Cardinality(MenuMatches)
    /\ FreshMenu(rendered)
    /\ dropdownManager = rendered

\* ---- tooltips

\* C21: the tooltip opens only when the hover timer of a tooltip match expires,
\* which it does only if no pointer-leave came after the pointer-enter that
\* started it; a pointer-leave cancels a pending timer and leaves the tooltip
\* and the menu as they were, so a session that was idle stays idle.
TooltipAfterUninterruptedDelay ==
    /\ [](lastEvent.kind = "hoverTimer" =>
            /\ ~lastEvent.matchData[1].left
            /\ lastEvent.matchData[1].matchData.command.behavior \in {"bubble", "hover"})
    /\ [](lastEvent.kind = "mouseLeave" =>
            /\ hoverTimeout = <<>>
            /\ TooltipOpen <=> lastEvent.wasShown
            /\ MenuOpen <=> lastEvent.wasActive)
    /\ [][currentBubble' # <<>> /\ currentBubble' # currentBubble => HoverTimer]_vars

\* the pointer left a tooltip match while its timer was pending, with nothing open
LeaveBeforeDelayReached ==
    /\ lastEvent.kind = "mouseLeave"
    /\ lastEvent.wasPending
    /\ ~TooltipOpen
    /\ ~MenuOpen
    /\ hoverTimeout = <<>>

\* a step in which render() ran: a text edit, a commit, a command-map change
RenderStep ==
    \/ lastEvent'.kind = "edit"
    \/ lastEvent'.kind \in CommitKinds
    \/ \E cfg \in SessionConfigs : UpdateCommandMap(cfg)

IsBlank(q) == \A k \in 1..Len(q) : q[k] \in {" ", NL}

\* d is v without the white space at its two ends, and is not empty
Stripped(v, d) ==
    /\ d # <<>>
    /\ ~IsBlank(<<d[1]>>)
    /\ ~IsBlank(<<d[Len(d)]>>)
    /\ \E i \in 0..Len(v) :
           /\ i + Len(d) <= Len(v)
           /\ SubSeq(v, i + 1, i + Len(d)) = d
           /\ IsBlank(SubSeq(v, 1, i))
           /\ IsBlank(SubSeq(v, i + Len(d) + 1, Len(v)))

\* C23, as stated: Enter in the text box of a user-input option holding a
\* value v that is not blank commits an option whose replacement text is v.
SubmitCommitsTypedValue ==
    lastEvent.kind = "userInput" => lastEvent.option[1].display = lastEvent.typed[1]

\* C23, amended: Enter in the text box holding v commits an option whose label
\* and replacement text are v without the white space at its ends: the option
\* is handed to the host, the text is changed as for any commit and the menu is
\* closed; when v is empty or all white space nothing is committed, the text is
\* unchanged and the menu stays open as it was, the focus in the text box.
SubmitCommitsTrimmedValue ==
    /\ lastEvent.kind = "userInput" =>
           /\ Stripped(lastEvent.typed[1], lastEvent.option[1].display)
           /\ lastEvent.option[1].label = lastEvent.option[1].display
           /\ lastEvent.option[1].hasOnSelect
           /\ text = AppendForm
           /\ text # lastEvent.before
           /\ ~MenuOpen
    /\ lastEvent.kind = "userInputBlank" =>
           /\ IsBlank(lastEvent.typed[1])
           /\ text = lastEvent.before
           /\ dropdownManager = lastEvent.dropdown[1]
           /\ MenuOpen
           /\ focus = "userInput"

\* " x" was submitted and "x" committed
SubmitTrimmedReached ==
    /\ lastEvent.kind = "userInput"
    /\ lastEvent.typed = << <<" ", "x">> >>
    /\ lastEvent.option[1].display = <<"x">>
    /\ ~MenuOpen

\* ------------------------------------------------------------ malformed patterns

\* the commands whose pattern compiles
WellFormed(cmds) ==
    SelectSeq(cmds, LAMBDA c : ~(c.matchType = "regex" /\ throwsSyntaxError(c.match)))

\* the matches are those of a render under the current commands
Fresh == isReady \/ lastEvent.kind = "edit"

\* C24: a trigger map with a regex pattern that does not compile loads and
\* scans like the same map without that pattern: parsing keeps the other rules
\* in the same order, the malformed rule contributes no match to any render,
\* and every render's match list is the scan of the text under the map with
\* the pattern removed.
MalformedPatternIsInert ==
    commands = parseCommandMap(CfgMalformed) =>
        /\ WellFormed(commands) = parseCommandMap(CfgMalformedRemoved)
        /\ Len(commands) = Len(WellFormed(commands)) + 1
        /\ Fresh =>
              /\ matches = scan(text, parseCommandMap(CfgMalformedRemoved))
              /\ \A k \in 1..Len(matches) : ~throwsSyntaxError(matches[k].command.match)
              /\ overlay = renderOverlay(text, matches)

MalformedMapScannedReached ==
    /\ isReady
    /\ commands = parseCommandMap(CfgMalformed)
    /\ throwsSyntaxError(commands[1].match)
    /\ Len(matches) = 2

\* ------------------------------------------------------------ the fetch in flight

InFlight == ~isReady

\* C25, as stated: every scan of a text change made while the fetch of the
\* trigger map is in flight yields zero matches.
InFlightScansFindNothing == InFlight /\ lastEvent.kind = "edit" => matches = <<>>

\* C25, amended: a text change made while the fetch is in flight is scanned and
\* rendered at once under the commands the scanner has, which are none unless
\* updateCommandMap was called meanwhile (such a call does not render); when
\* the fetch resolves the current text is scanned and rendered under the
\* fetched map and the instance is ready; when it fails the current text is
\* rendered under the commands the scanner had and the instance is ready.
InFlightScansUseCurrentCommands ==
    /\ [](InFlight /\ lastEvent.kind = "edit" =>
            /\ matches = scan(text, commands)
            /\ overlay = renderOverlay(text, matches)
            /\ commands = <<>> => matches = <<>>)
    /\ [](lastEvent.kind \in {"fetchResolved", "fetchFailed"} =>
            /\ isReady
            /\ matches = scan(text, commands)
            /\ overlay = renderOverlay(text, matches))
    /\ [][\A cfg \in LoadConfigs :
            FetchResolves(cfg) => commands' = parseCommandMap(cfg) /\ text' = text]_vars
    /\ [][FetchFails => commands' = commands /\ text' = text /\ isReady']_vars
    /\ [][InFlight /\ (\E cfg \in LoadConfigs : UpdateCommandMap(cfg)) =>
            matches' = matches /\ overlay' = overlay /\ ~isReady']_vars

TypedTextRescannedOnResolveReached ==
    /\ lastEvent.kind = "fetchResolved"
    /\ text # <<>>
    /\ matches # <<>>
    /\ isReady

\* ------------------------------------------------------------ stale anchors

\* the text the commit found at the anchor's line and columns
TextAtAnchor(e) ==
    LET lines == split(e.before)
        md == e.matchData[1]
    IN  IF md.line < Len(lines)
        THEN substring(lines[md.line + 1], md.col, md.col + Len(md.text))
        ELSE <<>>

\* the last handler committed an option whose anchor's span no longer held
\* the matched text
StaleCommit ==
    /\ lastEvent.kind \in CommitKinds
    /\ TextAtAnchor(lastEvent) # lastEvent.matchData[1].text

\* C26: a commit whose anchor's line and columns no longer hold the matched
\* text leaves the text unchanged and the session without a menu or tooltip.
StaleCommitIsDiscarded ==
    StaleCommit => text = lastEvent.before /\ ~MenuOpen /\ ~TooltipOpen

\* ------------------------------------------------------------ affordance classes

\* the class a rule calls for: menu, tooltip or none
AffordanceOf(intent) ==
    IF intent.handler.options # <<>> THEN "dropdown"
    ELSE IF intent.description # "" \/ intent.handler.message # ""
            \/ intent.handler.messageContent # ""
    THEN "bubble"
    ELSE ""

\* C27: every match element of the overlay carries the one behaviour its rule
\* calls for (dropdown with options, else bubble with a description or message,
\* else none); a dropdown is only ever open for a rule with options, and a
\* hover timer is only ever pending, and a bubble only ever shown, for a rule
\* with a description or message and no options.
AffordanceFollowsRule ==
    /\ Len(matchElements(overlay)) = Len(matches)
    /\ \A k \in 1..Len(matches) :
          matchElements(overlay)[k].attrs[1].dataBehavior
              = AffordanceOf(matches[k].command.intent)
    /\ MenuOpen => AffordanceOf(dropdownManager.dropdownMatchData[1].intent) = "dropdown"
    /\ hoverTimeout # <<>> => AffordanceOf(hoverTimeout[1].matchData.intent) = "bubble"
    /\ TooltipOpen => AffordanceOf(currentBubble[1].matchData.intent) = "bubble"

AllThreeClassesReached ==
    /\ text = TxtThree
    /\ Len(matches) = 3
    /\ AffordanceOf(matches[1].command.intent) = "dropdown"
    /\ AffordanceOf(matches[2].command.intent) = "bubble"
    /\ AffordanceOf(matches[3].command.intent) = ""
    /\ matches[1].command.intent.handler.message # ""
    /\ MenuOpen
    /\ TooltipOpen
    /\ hoverTimeout # <<>>

\* ------------------------------------------------------------ resolved triggers

\* line L (0-based) of the text
LineOfText(L) == IF L < Len(split(text)) THEN split(text)[L + 1] ELSE <<>>

\* match m belongs to a phrase rule
LiteralMatch(m) == m.command.matchType = "string"

\* the last handler was an append commit that changed the text
AppendCommitted ==
    /\ lastEvent.kind \in CommitKinds
    /\ dropdownDef = 2
    /\ text # lastEvent.before

\* C28: right after an append commit the anchor's occurrence is followed by
\* "/" and the render of the new text has no phrase match at the anchor's line
\* and column, and no menu is open; and in every state no phrase match of the
\* last scan is followed by "/", and an open menu is not anchored on a phrase
\* occurrence that is followed by "/".
ResolvedTriggerDoesNotRematch ==
    /\ AppendCommitted =>
          LET md == lastEvent.matchData[1]
          IN  /\ substring(LineOfText(md.line), md.col, md.col + Len(md.text) + 1)
                     = md.text \o <<"/">>
              /\ \A k \in 1..Len(matches) :
                    ~(LiteralMatch(matches[k]) /\ matches[k].line = md.line
                      /\ matches[k].col = md.col)
              /\ ~MenuOpen
    /\ \A k \in 1..Len(matches) :
          LiteralMatch(matches[k]) =>
              charAt(LineOfText(matches[k].line), matches[k].col + matches[k].length) # "/"
    /\ MenuOpen =>
          LET md == dropdownManager.dropdownMatchData[1]
          IN  \A k \in 1..Len(matches) :
                  LiteralMatch(matches[k]) /\ matches[k].line = md.line
                  /\ matches[k].col = md.col =>
                      charAt(LineOfText(md.line), md.col + Len(md.text)) # "/"

ResolvedTriggerRescannedReached ==
    /\ AppendCommitted
    /\ LET md == lastEvent.matchData[1]
       IN  substring(LineOfText(md.line), md.col, md.col + Len(md.text) + 1)
               = md.text \o <<"/">>
    /\ matches # <<>>
    /\ ~MenuOpen

\* ------------------------------------------------------------ termination of the scan

\* C29: every iteration of a findMatches loop that does not end the call moves
\* the position the search resumes from forward, so that the call returns
\* after at most one iteration per position of the line, and one more.
EveryIterationAdvances ==
    frame # <<>> /\ frame[1].iterations > 0 /\ frame[1].pc = "loop" =>
        /\ frame[1].position > frame[1].previous
        /\ frame[1].iterations <= Len(frame[1].line) + 1

\* the calls whose loop does advance return what findMatches returns
AdvancingCallsReturn ==
    frame # <<>> /\ frame[1].pc = "returned" /\ frame[1].command.match # <<>>
    /\ frame[1].command.match # SrcEStar =>
        frame[1].matches = findMatches(frame[1].line, frame[1].command, 0)

\* ------------------------------------------------------------ arrow keys in the filter field

\* C30, as stated: an arrow key typed in the filter field leaves the selection
\* where the same key typed outside the filter field would have put it.
FilterArrowMovesSelection ==
    lastEvent.kind = "filterArrow" =>
        dropdownManager.selectedDropdownIndex
            = moveDropdownSelection(lastEvent.dropdown[1],
                                    lastEvent.typed[1]).selectedDropdownIndex

\* C30, amended: an arrow key typed in the filter field changes nothing in the
\* dropdown (selection, filter value, visible items) and hands the focus to
\* the textarea; the dropdown stays open.
FilterArrowOnlyMovesFocus ==
    lastEvent.kind = "filterArrow" =>
        /\ dropdownManager = lastEvent.dropdown[1]
        /\ MenuOpen
        /\ focus = "textarea"

FilterArrowWithSeveralVisibleReached ==
    /\ lastEvent.kind = "filterArrow"
    /\ Len(visibleItems(dropdownManager.activeDropdown[1].items)) >= 2
    /\ dropdownManager.activeDropdown[1].filterValue # <<>>
    /\ focus = "textarea"

\* ------------------------------------------------------------ compiled order

\* the phrases or patterns one entry lists
PatternsOfEntry(t) ==
    IF t.type = "regex" THEN t.regex ELSE IF t.type = "match" THEN t.match ELSE <<>>

\* the phrases and patterns of a trigger map, in configuration order
ConfiguredPatterns(cfg) ==
    Concat([i \in 1..Len(cfg) |->
               IF cfg[i][1] \in MetaKeys THEN <<>>
               ELSE Concat([j \in 1..Len(cfg[i][2]) |-> PatternsOfEntry(cfg[i][2][j])])])

\* the place of the i-th configured pattern among all of them, longest first,
\* earlier first among equally long ones
RankOf(pats, i) ==
    1 + Cardinality({j \in 1..Len(pats) :
                        \/ Len(pats[j]) > Len(pats[i])
                        \/ Len(pats[j]) = Len(pats[i]) /\ j < i})

\* C31: the commands hold one rule per configured phrase or pattern, longest
\* pattern first across all buckets and in configuration order among equally
\* long ones, and the match list is the scan of the text under the commands
\* in that order.
CompiledLongestFirst ==
    \A cfg \in Configs :
        commands = parseCommandMap(cfg) =>
            LET pats == ConfiguredPatterns(cfg)
            IN  /\ Len(commands) = Len(pats)
                /\ \A i \in 1..Len(pats) : commands[RankOf(pats, i)].match = pats[i]
                /\ \A k \in 1..Len(commands) - 1 :
                       Len(commands[k].match) >= Len(commands[k + 1].match)
                /\ matches = scan(text, commands)

ReorderedRulesScannedReached ==
    /\ commands = parseCommandMap(CfgCase)
    /\ commands[1].match = SrcTe /\ commands[2].match = <<"e", "e">>
    /\ commands[3].match = <<"t">>
    /\ ConfiguredPatterns(CfgCase) = <<SrcTe, <<"t">>, <<"e", "e">>>>
    /\ matches # <<>>

\* ------------------------------------------------------------ "/" on the left

\* phrase rule i occurs at column p of line L right after a "/", and what
\* follows the occurrence is neither a word character nor "/"
OccursAfterSlash(L, i, p) ==
    LET line == TextLines[L + 1]
        phrase == toLowerCase(commands[i].match)
    IN  /\ commands[i].matchType = "string"
        /\ phrase # <<>>
        /\ Len(toLowerCase(line)) = Len(line)
        /\ p > 0
        /\ substring(toLowerCase(line), p, p + Len(phrase)) = phrase
        /\ charAt(line, p - 1) = "/"
        /\ p + Len(phrase) = Len(line)
           \/ ~(isWordChar(charAt(line, p + Len(phrase)))
                \/ charAt(line, p + Len(phrase)) = "/")

\* C32, as stated: no match of a phrase rule is immediately preceded by "/".
SlashOnTheLeftRejects ==
    \A k \in 1..Len(matches) : IsLiteral(matches[k]) => LeftNeighbour(matches[k]) # "/"

\* C32, amended: "/" before an occurrence is an ordinary non-word character:
\* findMatches returns every occurrence of a phrase that follows a "/" and
\* passes the check on its right side.
SlashOnTheLeftAccepts ==
    \A L \in LineNumbers : \A i \in 1..Len(commands) :
        \A p \in 1..Len(TextLines[L + 1]) :
            OccursAfterSlash(L, i, p) => \E c \in CandidatesOf(L, i) : c.col = p

SlashOnTheLeftMatchedReached ==
    /\ text = <<"/", "t", "e">>
    /\ \E k \in 1..Len(matches) :
          IsLiteral(matches[k]) /\ matches[k].col = 1 /\ LeftNeighbour(matches[k]) = "/"

\* ------------------------------------------------------------ one phrase rule scanned alone

\* phrase rules of one, two and two characters, the last made of non-word
\* characters so that an occurrence can start inside a rejected one
CfgLiteral ==
    << <<"info", <<MatchTrigger(<<<<"t">>, SrcTe, <<"/", "/">>>>,
                                Handler("note", FALSE, FALSE, <<>>))>> >> >>

LiteralAlphabet == {"t", "e", "T", "/", " ", DottedI}

\* new CommandScanner() and setCommandMap(CfgLiteral); no findMatches call yet
InitLiteral ==
    /\ dropdownDef = 2
    /\ destroyed = <<>>
    /\ placement = <<>>
    /\ commands = parseCommandMap(CfgLiteral)
    /\ text = <<>>
    /\ matches = <<>>
    /\ overlay = <<>>
    /\ dropdownManager = NewDropdownManager
    /\ rendered = dropdownManager
    /\ validationState = EmptyValidationState
    /\ lastUpdate = [arg |-> <<>>, before |-> EmptyValidationState, notified |-> FALSE,
                     reported |-> EmptyValidationState]
    /\ calls = 0
    /\ lastEvent = NoEvent
    /\ currentBubble = <<>>
    /\ hoverTimeout = <<>>
    /\ focus = "textarea"
    /\ blurTimer = FALSE
    /\ isReady = FALSE
    /\ frame = <<>>

\* findMatches(line, command, 0) runs to its return
ScanAlone(line, command) ==
    /\ frame' = <<[line |-> line, command |-> command,
                   matches |-> findMatches(line, command, 0),
                   position |-> Len(line), previous |-> 0, iterations |-> 0,
                   pc |-> "returned"]>>
    /\ UNCHANGED <<commands, text, matches, overlay, dropdownManager, dropdownDef, destroyed,
                   placement,
                   validationState, lastUpdate, calls, lastEvent, rendered,
                   currentBubble, hoverTimeout, focus, blurTimer, isReady>>

NextLiteral ==
    \E line \in SeqsUpTo(LiteralAlphabet, MaxLen) :
        \E k \in 1..Len(commands) : ScanAlone(line, commands[k])

SpecLiteral == InitLiteral /\ [][NextLiteral]_vars

\* the columns of line where phrase occurs up to letter case and passes the
\* boundary check
WholeWordOccurrences(line, phrase) ==
    {p \in 0..(Len(line) - Len(phrase)) :
        /\ toLowerCase(substring(line, p, p + Len(phrase))) = toLowerCase(phrase)
        /\ isWholeWordMatch(line, p, Len(phrase))}

\* the occurrences taken from column from on, left to right without overlap
RECURSIVE LeftToRight(_, _, _)
LeftToRight(occurrences, length, from) ==
    LET rest == {p \in occurrences : p >= from}
    IN  IF rest = {} THEN {}
        ELSE LET first == CHOOSE p \in rest : \A q \in rest : p <= q
             IN  {first} \cup LeftToRight(occurrences, length, first + length)

\* the returned call describes exactly the occurrences taken left to right
ReturnsEveryOccurrence(f) ==
    LET n == Len(f.command.match)
        taken == LeftToRight(WholeWordOccurrences(f.line, f.command.match), n, 0)
    IN  /\ {f.matches[k].col : k \in 1..Len(f.matches)} = taken
        /\ Len(f.matches) = Cardinality(taken)
        /\ \A k \in 1..Len(f.matches) :
               /\ f.matches[k].length = n
               /\ f.matches[k].text = substring(f.line, f.matches[k].col, f.matches[k].col + n)
               /\ k > 1 => f.matches[k - 1].col + n <= f.matches[k].col

\* C33: findMatches of a phrase rule returns a match for every whole-word
\* occurrence of the phrase up to letter case, taken left to right without
\* overlap; repeated phrases are each matched and a rejected candidate hides
\* no valid occurrence that starts at a later column inside or after it.
LiteralScanFindsEveryOccurrence ==
    frame # <<>> => ReturnsEveryOccurrence(frame[1])

\* the same on the lines whose lower-cased copy is as long as the line
LiteralScanFindsEveryOccurrenceSameLength ==
    frame # <<>> /\ Len(toLowerCase(frame[1].line)) = Len(frame[1].line)
        => ReturnsEveryOccurrence(frame[1])

\* "///" under the phrase "//": the candidate at column 0 is rejected and the
\* occurrence that starts inside it, at column 1, is returned
OccurrenceInsideRejectedReached ==
    /\ frame # <<>>
    /\ frame[1].line = <<"/", "/", "/">>
    /\ frame[1].command.match = <<"/", "/">>
    /\ Len(frame[1].matches) = 1
    /\ frame[1].matches[1].col = 1

\* ------------------------------------------------------------ the stored summary

\* C34: the stored state is the summary passed to the most recent
\* onValidationChange call, the empty summary if there was none; an update
\* that does not call the host leaves the stored state, match lists included,
\* as it was.
StoredIsLastReported ==
    /\ [](validationState = lastUpdate.reported)
    /\ [](calls = 0 => validationState = EmptyValidationState)
    /\ [][~lastUpdate'.notified => /\ validationState' = validationState
                                   /\ lastUpdate'.reported = lastUpdate.reported
                                   /\ calls' = calls]_vars

\* the host was called once, with a summary holding an error; the last update
\* carried other match objects and was not reported: the stored lists are
\* still those the host was given
SilentUpdateKeepsListsReached ==
    /\ calls = 1
    /\ ~lastUpdate.notified
    /\ lastUpdate.arg # <<>>
    /\ lastUpdate.arg # validationState.errors
    /\ validationState.errors # <<>>
    /\ validationState = lastUpdate.reported

\* ------------------------------------------------------------ the highlighted index

\* C35: while a menu is open its option list is not empty, it has one item per
\* option and 0 <= selectedDropdownIndex < number of options; a match without
\* options opens no menu; no commit happens without an option list.
HighlightWithinOptions ==
    /\ [](dropdownManager.activeDropdown # <<>> =>
             /\ dropdownManager.dropdownOptions # <<>>
             /\ dropdownManager.dropdownMatchData # <<>>)
    /\ [](dropdownManager.dropdownOptions # <<>> =>
             /\ dropdownManager.activeDropdown # <<>>
             /\ Len(dropdownManager.dropdownOptions[1]) > 0
             /\ Len(dropdownManager.activeDropdown[1].items)
                    = Len(dropdownManager.dropdownOptions[1])
             /\ dropdownManager.selectedDropdownIndex >= 0
             /\ dropdownManager.selectedDropdownIndex
                    < Len(dropdownManager.dropdownOptions[1]))
    /\ [](dropdownManager.dropdownMatchData # <<>> =>
             dropdownManager.dropdownMatchData[1].intent.handler.options
                 = dropdownManager.dropdownOptions[1])
    /\ [][/\ lastEvent'.kind = "matchClick"
              /\ lastEvent'.matchData[1].intent.handler.options = <<>>
              => dropdownManager' = dropdownManager]_vars
    /\ [][lastEvent'.kind \in CommitKinds /\ lastEvent' # lastEvent
              => /\ dropdownManager.dropdownOptions # <<>>
                 /\ \E i \in 1..Len(dropdownManager.dropdownOptions[1]) :
                        LET o == dropdownManager.dropdownOptions[1][i]
                        IN  lastEvent'.option[1].label = o.label
                               \/ lastEvent'.typed # <<>>]_vars

\* after a filter has hidden items and the arrow keys have moved the
\* selection, the last of several options is highlighted
LastOptionHighlightedReached ==
    /\ dropdownManager.activeDropdown # <<>>
    /\ dropdownManager.activeDropdown[1].filterValue # <<>>
    /\ \E k \in 1..Len(dropdownManager.activeDropdown[1].items) :
           dropdownManager.activeDropdown[1].items[k].display = "none"
    /\ Len(dropdownManager.dropdownOptions[1]) > 1
    /\ dropdownManager.selectedDropdownIndex = Len(dropdownManager.dropdownOptions[1]) - 1

\* ------------------------------------------------------------ the anchor of the open menu

\* the match data the open menu was created with
Anchor == dropdownManager.dropdownMatchData[1]

\* C36: while a menu is open the last scan was one of the current text (the
\* overlay it was rendered into spells the text), the menu's anchor is a match
\* of that scan, and the anchor's line holds the anchor's text at the anchor's
\* columns.
AnchorIsCurrentMatch ==
    MenuOpen =>
        /\ Len(overlay) = Len(TextLines)
        /\ \A i \in 1..Len(TextLines) : Concat(RunTexts(overlay[i])) = TextLines[i]
        /\ \E k \in 1..Len(matches) :
               /\ matches[k].line = Anchor.line
               /\ matches[k].col = Anchor.col
               /\ matches[k].text = Anchor.text
               /\ matches[k].command.intent.handler.options = Anchor.intent.handler.options
        /\ Anchor.line < Len(split(text))
        /\ substring(split(text)[Anchor.line + 1], Anchor.col, Anchor.col + Len(Anchor.text))
              = Anchor.text

\* the user typed after a menu match: the render that followed opened a menu
\* on the match of the edited text
AnchorAfterEditReached ==
    /\ MenuOpen
    /\ lastEvent.kind = "edit"
    /\ text \notin SessionTexts
    /\ Len(text) > Anchor.col + Len(Anchor.text)

\* a menu the user opened by a click on a match that is not the first
AnchorAfterClickReached ==
    /\ MenuOpen
    /\ lastEvent.kind = "matchClick"
    /\ Anchor.col > 0

\* ------------------------------------------------------------ onWordClick

\* the last handler was a click on a match whose affordance is a menu
ClickOnMenuMatch ==
    /\ lastEvent.kind = "matchClick"
    /\ lastEvent.matchData[1].intent.handler.options # <<>>

\* that click found the menu of the clicked match open, and closed it
ClosingToggle ==
    /\ lastEvent.dropdown[1].activeDropdown # <<>>
    /\ lastEvent.dropdown[1].dropdownMatchData = lastEvent.matchData

\* C37: a click on a menu match calls onWordClick, except when it closes the
\* open menu of that match, in which case onWordClick is not called.
ClickCallsHostUnlessClosing ==
    ClickOnMenuMatch =>
        IF ClosingToggle THEN lastEvent.wordClicks = 0 ELSE lastEvent.wordClicks >= 1

\* what the handler does: onWordClick is called exactly by the click that
\* closes the open menu of the clicked match
ClickCallsHostOnlyWhenClosing ==
    ClickOnMenuMatch =>
        /\ ClosingToggle <=> ~MenuOpen
        /\ IF ClosingToggle THEN lastEvent.wordClicks = 1 ELSE lastEvent.wordClicks = 0

\* ------------------------------------------------------------ destroy()

InitDestroy == InitWith({CfgPair})

\* TrustQuery.destroy(): removeEventListener is given this.render and
\* this.syncScroll, neither of which is a listener the instance registered
\* (setupTextareaListeners registers arrow functions), so the textarea keeps
\* its input listener; the interaction handler hides the menu and the tooltip
\* and clears the hover timer; the textarea is unwrapped
Destroy ==
    /\ destroyed = <<>>
    /\ destroyed' = <<[matches |-> matches, overlay |-> overlay, lastUpdate |-> lastUpdate]>>
    /\ dropdownManager' = hideDropdown(dropdownManager)
    /\ currentBubble' = hideBubble(currentBubble)
    /\ hoverTimeout' = clearHoverTimeout(hoverTimeout)
    /\ focus' = focusAfterRemove(focus)
    /\ lastEvent' = Event("destroy", <<>>, <<>>, <<>>, <<>>)
    /\ UNCHANGED <<commands, dropdownDef, placement, isReady, frame, scanVars, blurTimer>>

NextDestroy ==
    \/ \E c \in ScannerAlphabet : Input(c)
    \/ Backspace
    \/ KeyEscape
    \/ Destroy

SpecDestroy == InitDestroy /\ [][NextDestroy]_vars

\* C38: once destroy() has returned, the instance scans, renders and updates
\* the validation state no more, and none of its menus or tooltips is open.
DestroyedInstanceIsInert ==
    destroyed # <<>> =>
        /\ matches = destroyed[1].matches
        /\ overlay = destroyed[1].overlay
        /\ lastUpdate = destroyed[1].lastUpdate
        /\ ~MenuOpen
        /\ ~TooltipOpen

\* what destroy() itself leaves behind: no menu, no tooltip, no hover timer
DestroyClosesAffordances ==
    lastEvent.kind = "destroy" =>
        ~MenuOpen /\ ~TooltipOpen /\ hoverTimeout = <<>>

\* ------------------------------------------------------------ positioning

\* window.innerWidth and window.innerHeight
ViewportWidth == 100

ViewportHeight == 100

\* width and height of a match element
AnchorSize == 20

\* the 8 of positionBubble
BubbleOffset == 8

\* the 10 both position methods keep from the right edge
RightEdgeMargin == 10

\* the default padding of calculatePosition
DefaultPadding == 10

\* options.dropdownOffset: the DropdownManager's default and the one TrustQuery passes
DropdownOffsets == {10, 28}

\* getBoundingClientRect() of a match element that lies inside the viewport
AnchorRects ==
    {[left |-> x, top |-> y, right |-> x + AnchorSize, bottom |-> y + AnchorSize] :
        x \in {0, 40, ViewportWidth - AnchorSize}, y \in {0, 40, ViewportHeight - AnchorSize}}

\* getBoundingClientRect() of a menu or tooltip, no larger than the viewport
AffordanceRects ==
    {[width |-> w, height |-> h] : w \in {20, ViewportWidth}, h \in {20, 60}}

\* window.scrollX and window.scrollY
Scrolls == {[x |-> x, y |-> y] : x \in {0, 30}, y \in {0, 30}}

\* DropdownManager.positionDropdown: style.top and style.left
positionDropdown(rect, dropdownRect, offset, scroll) ==
    LET above == rect.top + scroll.y - dropdownRect.height - offset
        start == rect.left + scroll.x
    IN  [top |-> IF above < scroll.y THEN rect.bottom + scroll.y + offset ELSE above,
         left |-> IF start + dropdownRect.width > ViewportWidth
                  THEN ViewportWidth - dropdownRect.width - RightEdgeMargin
                  ELSE start]

\* BubbleManager.positionBubble: style.top and style.left
positionBubble(rect, bubbleRect, scroll) ==
    LET above == rect.top + scroll.y - bubbleRect.height - BubbleOffset
        start == rect.left + scroll.x
    IN  [top |-> IF above < scroll.y THEN rect.bottom + scroll.y + BubbleOffset ELSE above,
         left |-> IF start + bubbleRect.width > ViewportWidth
                  THEN ViewportWidth - bubbleRect.width - RightEdgeMargin
                  ELSE start]

\* EdgeDetectionHelper.calculatePosition
calculatePosition(matchRect, dropdownRect, offset, padding, scroll) ==
    LET above == matchRect.top + scroll.y - dropdownRect.height - offset
        start == matchRect.left + scroll.x
        rightEdge == start + dropdownRect.width
        viewportRightEdge == ViewportWidth + scroll.x
        minLeft == scroll.x + padding
        shifted == IF rightEdge > viewportRightEdge - padding
                   THEN Max(start - (rightEdge - (viewportRightEdge - padding)), minLeft)
                   ELSE start
    IN  [top |-> IF above < scroll.y THEN matchRect.bottom + scroll.y + offset ELSE above,
         left |-> IF shifted < minLeft THEN minLeft ELSE shifted]

Placed(method, rect, size, scroll, position) ==
    /\ placement' = <<[method |-> method, rect |-> rect, size |-> size, scroll |-> scroll,
                       top |-> position.top, left |-> position.left]>>
    /\ UNCHANGED <<commands, text, matches, overlay, dropdownManager, dropdownDef, destroyed,
                   validationState, lastUpdate, calls, lastEvent, rendered, currentBubble,
                   hoverTimeout, focus, blurTimer, isReady, frame>>

PositionDropdown(rect, size, offset, scroll) ==
    Placed("positionDropdown", rect, size, scroll, positionDropdown(rect, size, offset, scroll))

PositionBubble(rect, size, scroll) ==
    Placed("positionBubble", rect, size, scroll, positionBubble(rect, size, scroll))

CalculatePosition(rect, size, offset, scroll) ==
    Placed("calculatePosition", rect, size, scroll,
           calculatePosition(rect, size, offset, DefaultPadding, scroll))

InitPosition == InitValidation

NextPosition ==
    \E rect \in AnchorRects : \E size \in AffordanceRects : \E scroll \in Scrolls :
        \/ \E offset \in DropdownOffsets : PositionDropdown(rect, size, offset, scroll)
        \/ PositionBubble(rect, size, scroll)
        \/ \E offset \in DropdownOffsets : CalculatePosition(rect, size, offset, scroll)

SpecPosition == InitPosition /\ [][NextPosition]_vars

\* C39: the position computed for a menu or tooltip no larger than the
\* viewport keeps it inside the viewport on all four sides.
AffordanceInsideViewport ==
    placement # <<>> =>
        LET p == placement[1]
        IN  /\ p.left >= p.scroll.x
            /\ p.left + p.size.width <= p.scroll.x + ViewportWidth
            /\ p.top >= p.scroll.y
            /\ p.top + p.size.height <= p.scroll.y + ViewportHeight

\* what the three methods do keep: the affordance never starts above the top
\* edge of the viewport, and calculatePosition never starts it left of the
\* left edge
AffordanceBelowTopEdge ==
    placement # <<>> =>
        LET p == placement[1]
        IN  /\ p.top >= p.scroll.y
            /\ p.method = "calculatePosition" => p.left >= p.scroll.x + DefaultPadding


====
